---- MODULE Spec2Model ----
(***************************************************************************)
(* A model of vfs_nodes: the concurrent in-memory store (MemoryScheme and  *)
(* MemoryNode, src/src/schemes/memory.rs), the union-mount scheme          *)
(* (OverlayScheme, src/src/schemes/overlay.rs), the link scheme            *)
(* (SymLinkScheme, src/src/schemes/symlink.rs) and the scheme registry     *)
(* (Vfs, src/src/lib.rs).                                                  *)
(*                                                                         *)
(* Spec        two threads on one MemoryScheme; each step is one critical  *)
(*             section of the code (one DashMap call, one RwLock guard).   *)
(* SpecSeq     one caller on one MemoryScheme; every call runs to its      *)
(*             return before the next and its result is recorded.          *)
(* SpecOverlay one call on an OverlayScheme mounted over memory stores and *)
(*             data loaders.                                               *)
(* SpecDir     one listing of such an OverlayScheme, drained to its end.   *)
(* SpecOptions one NodeGetOptions value built by setter calls              *)
(*             (src/src/scheme.rs).                                        *)
(* SpecMerge   one call of SymLinkScheme::merge_urls.                      *)
(* SpecLink    a SymLinkScheme built by link calls, then one call through  *)
(*             the Vfs that is followed hop by hop to a MemoryScheme.      *)
(* SpecVfs     a Vfs (src/src/lib.rs) with MemorySchemes registered under  *)
(*             names and nodes opened through it.                          *)
(* SpecNode    as SpecSeq, with flush and close, seeks at the ends of the  *)
(*             i64 range, and a second caller that truncates a path.       *)
(* SpecScan    one MemoryScheme::read_dir over keys given character by     *)
(*             character, drained while another thread creates and removes *)
(*             keys.                                                       *)
(* SpecPair    two callers on one path of a MemoryScheme, call by call.    *)
(* SpecLock    two threads on a MemoryScheme and its nodes, one step per   *)
(*             lock taken or dropped (DashMap guard, RwLock guard).        *)
(* SpecLockFair  the calls of SpecLock on one path, with every thread's    *)
(*             next lock step strongly fair.                               *)
(***************************************************************************)
EXTENDS Integers, Sequences, FiniteSets, TLC

\* ---------------------------------------------------------------- bounds
\* longest buffer a write may produce
MaxLen == 2
\* number of buffers (Arc<RwLock<Vec<u8>>>) alive at the same time
MaxBufs == 3
\* number of layers of the OverlayScheme
MaxLayers == 2
\* number of links a SymLinkScheme is built with
MaxLinks == 2
\* longest path of a symlink destination that is followed
MaxPathLen == 8
\* the bits of an i64, u64 and usize
MaxBits == 4

Procs == {1, 2}
\* the url paths: two hierarchical ones and an opaque one (`overlay:blah`)
Paths == {"/x", "/y", "blah"}
\* `url.path_segments().is_some()`
Hierarchical(path) == path \in {"/x", "/y"}
Byte == {0, 1}
\* the MemoryScheme instances: one per overlay layer
Stores == 1..MaxLayers
BufIds == 1..MaxBufs
\* no buffer: the None of `self.storage.get(path)`, and a caller without node
NoBuf == 0
NoNode == [data |-> NoBuf, cursor |-> 0, read |-> FALSE, write |-> FALSE]

Min(a, b) == IF a < b THEN a ELSE b

VARIABLES
    storage,  \* MemoryScheme.storage of each store: path -> buffer id or NoBuf
    bufs,     \* the content of each buffer
    node,     \* the MemoryNode each caller holds, or NoNode
    call,     \* each caller's position inside get_node / remove_node
    overlays, \* OverlayScheme.overlays: the layers in declared order
    dir,      \* OverlayReadDir: the stack of the layers' listing streams
    last,     \* history: the call that returned last and its result
    yielded,  \* history: the entries the OverlayReadDir has yielded
    rt,       \* history: each handle's create/write/seek(0)/read-to-end progress
    forced,   \* history: "armed" once a forced removal cleared the non-empty
              \* buffer of a reading handle and until somebody writes to it; the
              \* handle's next read turns it into "empty" (zero bytes) or "bad"
    wins,     \* history: the create_new calls that succeeded on a path since
              \* the path was last removed
    builder,  \* the NodeGetOptions value a caller is building, and the setter
              \* it called last
    base,     \* SymLinkScheme.base: the trie, node path -> base_url or NoUrl
    resolve,  \* the call on the SymLinkScheme: link, or an operation through Vfs
    merged,   \* a call of merge_urls: its arguments and its result
    schemes   \* Vfs.schemes: scheme name -> the store of the MemoryScheme
              \* registered under it, or NoBuf

vars == <<storage, bufs, node, call, overlays, dir, last, yielded, rt, forced, wins,
          builder, base, resolve, merged, schemes>>

\* ------------------------------------------------------- NodeGetOptions
\* Every combination of the six flags: the setters can be called in any order
\* and write(false) / create(false) undo what create_new(true) derived.
Options ==
    [read : BOOLEAN, write : BOOLEAN, append : BOOLEAN,
     truncate : BOOLEAN, create : BOOLEAN, create_new : BOOLEAN]

NoOpts ==
    [read |-> FALSE, write |-> FALSE, append |-> FALSE,
     truncate |-> FALSE, create |-> FALSE, create_new |-> FALSE]

OptRead == [NoOpts EXCEPT !.read = TRUE]
OptWrite == [NoOpts EXCEPT !.write = TRUE]
OptCreateReadWrite == [NoOpts EXCEPT !.read = TRUE, !.write = TRUE, !.create = TRUE]
OptCreateNew ==
    [NoOpts EXCEPT !.read = TRUE, !.write = TRUE, !.create = TRUE, !.create_new = TRUE]
OptTruncate == [NoOpts EXCEPT !.write = TRUE, !.truncate = TRUE]
OptAppend == [NoOpts EXCEPT !.read = TRUE, !.write = TRUE, !.append = TRUE]

\* ------------------------------------------------------------ MemoryNode
\* a poll_read that copies from the start of the content
PollReadFromStart(nd, data, n) ==
    IF ~nd.read
    THEN [ok |-> FALSE, bytes |-> <<>>, cursor |-> nd.cursor]
    ELSE IF nd.cursor >= Len(data)
    THEN [ok |-> TRUE, bytes |-> <<>>, cursor |-> nd.cursor]
    ELSE LET amt == Min(Len(data) - nd.cursor, n)
         IN  [ok |-> TRUE, bytes |-> SubSeq(data, 1, amt), cursor |-> nd.cursor + amt]

\* poll_read of n bytes through node nd on the buffer content data
PollRead(nd, data, n) ==
    IF ~nd.read
    THEN [ok |-> FALSE, bytes |-> <<>>, cursor |-> nd.cursor]
    ELSE IF nd.cursor >= Len(data)
    THEN [ok |-> TRUE, bytes |-> <<>>, cursor |-> nd.cursor]
    ELSE LET amt == Min(Len(data) - nd.cursor, n)
         IN  [ok |-> TRUE,
              bytes |-> SubSeq(data, nd.cursor + 1, nd.cursor + amt),
              cursor |-> nd.cursor + amt]

\* a poll_write that inserts the bytes at the cursor
PollWriteInserting(nd, data, buf) ==
    IF ~nd.write
    THEN [ok |-> FALSE, data |-> data, cursor |-> nd.cursor]
    ELSE LET p == Min(nd.cursor, Len(data))
         IN  [ok |-> TRUE,
              data |-> SubSeq(data, 1, p) \o buf \o SubSeq(data, p + 1, Len(data)),
              cursor |-> p + Len(buf)]

\* a poll_write whose append branch replaces the content
PollWriteReplacing(nd, data, buf) ==
    [ok |-> nd.write, data |-> IF nd.write THEN buf ELSE data,
     cursor |-> IF nd.write THEN Len(buf) ELSE nd.cursor]

\* poll_write of the bytes buf
PollWrite(nd, data, buf) ==
    IF ~nd.write
    THEN [ok |-> FALSE, data |-> data, cursor |-> nd.cursor]
    ELSE IF nd.cursor >= Len(data)
    THEN [ok |-> TRUE, data |-> data \o buf, cursor |-> Len(data) + Len(buf)]
    ELSE IF nd.cursor + Len(buf) < Len(data)
    THEN [ok |-> TRUE,
          data |-> SubSeq(data, 1, nd.cursor) \o buf
                     \o SubSeq(data, nd.cursor + Len(buf) + 1, Len(data)),
          cursor |-> nd.cursor + Len(buf)]
    ELSE LET at == Len(buf) - ((nd.cursor + Len(buf)) - Len(data))
             inside == SubSeq(buf, 1, at)
             outside == SubSeq(buf, at + 1, Len(buf))
         IN  [ok |-> TRUE,
              data |-> SubSeq(data, 1, nd.cursor) \o inside \o outside,
              cursor |-> Len(data) + Len(outside)]

\* the i64 a result wraps to where overflow is not checked
Wrap(x) == ((x + 2^(MaxBits - 1)) % 2^MaxBits) - 2^(MaxBits - 1)

\* `x as usize` of an i64
AsUsize(x) == x % 2^MaxBits

\* poll_seek to pos = [kind, n]: the cursor it leaves where the arithmetic
\* wraps, and whether `-end_pos` or `this.cursor as i64 + offset` overflows, in
\* which case a build that checks overflow panics instead
PollSeek(nd, data, pos) ==
    IF ~nd.read /\ ~nd.write
    THEN [ok |-> FALSE, cursor |-> nd.cursor, overflow |-> FALSE]
    ELSE [ok |-> TRUE,
          overflow |-> CASE pos.kind = "Start" -> FALSE
                         [] pos.kind = "End" -> pos.n <= 0 /\ Wrap(0 - pos.n) # 0 - pos.n
                         [] OTHER -> Wrap(nd.cursor + pos.n) # nd.cursor + pos.n,
          cursor |->
            CASE pos.kind = "Start" ->
                    IF pos.n > Len(data) THEN Len(data) ELSE pos.n
              [] pos.kind = "End" ->
                    IF pos.n > 0 THEN Len(data)
                    ELSE IF AsUsize(Wrap(0 - pos.n)) > Len(data) THEN 0
                    ELSE Len(data) - AsUsize(Wrap(0 - pos.n))
              [] OTHER ->
                    LET new_cur == Wrap(nd.cursor + pos.n)
                    IN  IF new_cur < 0 THEN 0
                        ELSE IF AsUsize(new_cur) > Len(data) THEN Len(data)
                        ELSE AsUsize(new_cur)]

\* -------------------------------------------------------------- history
Idle == [pc |-> "idle", store |-> 0, path |-> "", opts |-> NoOpts,
         data |-> NoBuf, created |-> FALSE]

\* op: the call; path, opts, force: its arguments; err: "" or the error kind; n: the
\* number of bytes a read or a write returned;
\* tried: the layers an overlay call invoked, in order, or the keys the
\* clone of a MemoryScheme::read_dir holds; layer: the layer that served it
NoRes == [op |-> "none", path |-> "", opts |-> NoOpts, force |-> FALSE,
          err |-> "", n |-> 0, tried |-> <<>>, layer |-> 0]

\* the result of a call on a scheme or a node
Res(op, path, o, err, n) ==
    [NoRes EXCEPT !.op = op, !.path = path, !.opts = o, !.err = err, !.n = n]

RtOff == [phase |-> "off", wr |-> <<>>, rd |-> <<>>]
RtFresh == [phase |-> "fresh", wr |-> <<>>, rd |-> <<>>]

\* the histories after buffer d was modified
RtDisturbed(d) ==
    [q \in Procs |-> IF node[q].data = d THEN RtOff ELSE rt[q]]
ForcedDisturbed(d) ==
    [q \in Procs |->
        IF node[q].data = d /\ forced[q] = "armed" THEN "no" ELSE forced[q]]

\* ------------------------------------------------- the buffers' lifetime
\* the buffers somebody holds: a map entry, a node, or a call in flight
Referenced(stor, nd, cl) ==
    (UNION {{stor[s][path] : path \in DOMAIN stor[s]} : s \in Stores}
        \cup {nd[q].data : q \in Procs} \cup {cl[q].data : q \in Procs})
    \ {NoBuf}

FreeIds == BufIds \ Referenced(storage, node, call)

\* an allocation that takes the lowest id, held or not
AllocLowest == CHOOSE d \in BufIds : \A e \in BufIds : d <= e

\* Arc::new(RwLock::new(Vec::new())): an id nobody holds
Alloc == CHOOSE d \in FreeIds : \A e \in FreeIds : d <= e

\* a buffer that lives as long as the nodes on it
CollectWithNodes(bs, stor, nd, cl) ==
    [d \in BufIds |->
        IF d \in {nd[q].data : q \in Procs} \cup {cl[q].data : q \in Procs}
        THEN bs[d] ELSE <<>>]

\* a buffer lives as long as its longest holder
Collect(bs, stor, nd, cl) ==
    [d \in BufIds |-> IF d \in Referenced(stor, nd, cl) THEN bs[d] ELSE <<>>]

\* ----------------------------------------------------------- MemoryScheme
\* a call on a MemoryScheme or a MemoryNode leaves the overlay alone
MemOnly == UNCHANGED <<overlays, dir, yielded>>

\* get_node up to its first return or insert: what the lookup decides
Lookup(stor, path, o) ==
    IF stor[path] # NoBuf
    THEN IF o.create_new THEN "NodeAlreadyExists" ELSE "found"
    ELSE IF ~o.create THEN "NodeDoesNotExist" ELSE "insert"

\* a get_node that leaves the content of a present path alone
TruncateNever(bs, d, o) == bs

\* the buffers after the present branch of get_node
TruncateOnOpen(bs, d, o) ==
    IF o.truncate THEN [bs EXCEPT ![d] = <<>>] ELSE bs

\* a node that starts at the beginning of the content
InitialCursorZero(data, o) == 0

\* the initial cursor of a node
InitialCursor(data, o) ==
    IF o.append THEN Len(data) ELSE 0

\* the MemoryNode get_node builds
NewNode(d, cursor, o) ==
    [data |-> d, cursor |-> cursor, read |-> o.read, write |-> o.write]

\* the map after `self.storage.insert(path, data)`
Inserted(stor, path, d) == [stor EXCEPT ![path] = d]

\* the map after `self.storage.remove(path)`
Removed(stor, path) == [stor EXCEPT ![path] = NoBuf]

\* a removal that never clears, and one that always does
ClearOnRemoveNever(bs, d, force) == bs
ClearOnRemoveAlways(bs, d, force) == [bs EXCEPT ![d] = <<>>]

\* the buffers after remove_node took d out of the map
ClearOnRemove(bs, d, force) ==
    IF force THEN [bs EXCEPT ![d] = <<>>] ELSE bs

\* get_node returns Ok: the node replaces the one the caller held.  bs, rtB
\* and forcedB are the buffers and histories the call has produced so far.
Complete(p, d, o, created, bs, rtB, forcedB) ==
    /\ node' = [node EXCEPT ![p] = NewNode(d, InitialCursor(bs[d], o), o)]
    /\ rt' = [rtB EXCEPT ![p] =
                 IF created /\ o.read /\ o.write /\ bs[d] = <<>>
                 THEN RtFresh ELSE RtOff]
    /\ forced' = [forcedB EXCEPT ![p] = "no"]
    /\ call' = [call EXCEPT ![p] = Idle]

\* get_node, from the call to the end of the branch `self.storage.get(path)`
\* selects.  The present branch runs under the map entry's guard.  The absent
\* branch holds no guard when it goes on to insert.  The cursor of an
\* appending node is read from the buffer under a later lock; every other
\* node is complete here.
GetNode(p, s, path, o) ==
    /\ MemOnly
    /\ call[p].pc = "idle"
    /\ LET d == storage[s][path]
           out == Lookup(storage[s], path, o)
           bs == TruncateOnOpen(bufs, d, o)
           rtB == IF o.truncate THEN RtDisturbed(d) ELSE rt
           forcedB == IF o.truncate THEN ForcedDisturbed(d) ELSE forced
       IN  CASE out = "found" ->
                  /\ storage' = storage
                  /\ IF o.append
                     THEN /\ call' = [call EXCEPT ![p] =
                                [pc |-> "cursor", store |-> s, path |-> path,
                                 opts |-> o, data |-> d, created |-> FALSE]]
                          /\ rt' = rtB
                          /\ forced' = forcedB
                          /\ UNCHANGED node
                     ELSE Complete(p, d, o, FALSE, bs, rtB, forcedB)
                  /\ bufs' = Collect(bs, storage', node', call')
             [] out = "insert" ->
                  /\ Cardinality(FreeIds)
                        > Cardinality({q \in Procs : call[q].pc = "insert"})
                  /\ call' = [call EXCEPT ![p] =
                        [pc |-> "insert", store |-> s, path |-> path,
                         opts |-> o, data |-> NoBuf, created |-> FALSE]]
                  /\ UNCHANGED <<storage, bufs, node, rt, forced>>
             [] OTHER ->
                  UNCHANGED <<storage, bufs, node, call, rt, forced>>
    /\ UNCHANGED wins

\* get_node: `self.storage.insert(path.to_owned(), data.clone())`
GetNodeInsert(p) ==
    /\ MemOnly
    /\ call[p].pc = "insert"
    /\ FreeIds # {}
    /\ LET d == Alloc
           s == call[p].store
           o == call[p].opts
       IN  /\ storage' = [storage EXCEPT ![s] = Inserted(storage[s], call[p].path, d)]
           /\ wins' = [wins EXCEPT ![s][call[p].path] =
                         IF o.create_new THEN Min(@ + 1, 2) ELSE @]
           /\ IF o.append
              THEN /\ call' = [call EXCEPT ![p].pc = "cursor", ![p].data = d,
                                           ![p].created = TRUE]
                   /\ UNCHANGED <<node, rt, forced>>
              ELSE Complete(p, d, o, TRUE, bufs, rt, forced)
    /\ bufs' = Collect(bufs, storage', node', call')

\* get_node: the cursor of an appending node, and the node
GetNodeFinish(p) ==
    /\ MemOnly
    /\ call[p].pc = "cursor"
    /\ Complete(p, call[p].data, call[p].opts, call[p].created, bufs, rt, forced)
    /\ storage' = storage
    /\ bufs' = Collect(bufs, storage', node', call')
    /\ UNCHANGED wins

\* remove_node: `self.storage.remove(path)`; without force it returns here
RemoveNode(p, s, path, force) ==
    /\ MemOnly
    /\ call[p].pc = "idle"
    /\ LET d == storage[s][path]
       IN  IF d = NoBuf
           THEN UNCHANGED <<storage, call, bufs, wins>>
           ELSE /\ storage' = [storage EXCEPT ![s] = Removed(storage[s], path)]
                /\ wins' = [wins EXCEPT ![s][path] = 0]
                /\ call' = IF force
                           THEN [call EXCEPT ![p] =
                                   [Idle EXCEPT !.pc = "clear", !.store = s,
                                                !.path = path, !.data = d]]
                           ELSE call
                /\ bufs' = Collect(ClearOnRemove(bufs, d, FALSE),
                                   storage', node, call')
    /\ UNCHANGED <<node, rt, forced>>

\* remove_node with force: clear and shrink under the buffer's write lock
RemoveNodeClear(p) ==
    /\ MemOnly
    /\ call[p].pc = "clear"
    /\ LET d == call[p].data
       IN  /\ rt' = RtDisturbed(d)
           /\ forced' = [q \in Procs |->
                  IF node[q].data = d
                  THEN IF node[q].read /\ bufs[d] # <<>> THEN "armed" ELSE "no"
                  ELSE forced[q]]
           /\ call' = [call EXCEPT ![p] = Idle]
           /\ bufs' = Collect(ClearOnRemove(bufs, d, TRUE), storage, node, call')
    /\ UNCHANGED <<storage, node, wins>>

\* AsyncRead::poll_read with a buffer of n bytes
Read(p, n) ==
    /\ MemOnly
    /\ call[p].pc = "idle"
    /\ node[p].data # NoBuf
    /\ LET r == PollRead(node[p], bufs[node[p].data], n)
       IN  /\ node' = [node EXCEPT ![p].cursor = r.cursor]
           /\ forced' = [forced EXCEPT ![p] =
                 IF forced[p] # "armed" THEN "no"
                 ELSE IF r.ok /\ r.bytes = <<>> THEN "empty" ELSE "bad"]
           /\ rt' = [rt EXCEPT ![p] =
                 CASE r.ok /\ rt[p].phase = "rewound" ->
                        [phase |-> IF r.bytes = <<>> THEN "eof" ELSE "rewound",
                         wr |-> rt[p].wr, rd |-> rt[p].rd \o r.bytes]
                   [] r.ok /\ rt[p].phase \in {"fresh", "eof"} /\ r.bytes = <<>> ->
                        rt[p]
                   [] OTHER -> RtOff]
    /\ UNCHANGED <<storage, bufs, call, wins>>

\* a write that moves the cursor of every node on the buffer
WriteMovingAll(p, buf) ==
    /\ MemOnly
    /\ call[p].pc = "idle"
    /\ node[p].data # NoBuf
    /\ LET d == node[p].data
           w == PollWrite(node[p], bufs[d], buf)
       IN  /\ Len(w.data) <= MaxLen
           /\ bufs' = [bufs EXCEPT ![d] = w.data]
           /\ node' = [q \in Procs |->
                         IF node[q].data = d THEN [node[q] EXCEPT !.cursor = w.cursor]
                         ELSE node[q]]
           /\ rt' = [q \in Procs |-> RtOff]
           /\ forced' = IF w.ok THEN ForcedDisturbed(d) ELSE forced
    /\ UNCHANGED <<storage, call, wins>>

\* AsyncWrite::poll_write with the bytes buf
Write(p, buf) ==
    /\ MemOnly
    /\ call[p].pc = "idle"
    /\ node[p].data # NoBuf
    /\ LET d == node[p].data
           w == PollWrite(node[p], bufs[d], buf)
       IN  /\ Len(w.data) <= MaxLen
           /\ bufs' = [bufs EXCEPT ![d] = w.data]
           /\ node' = [node EXCEPT ![p].cursor = w.cursor]
           /\ rt' = IF ~w.ok THEN [rt EXCEPT ![p] = RtOff]
                    ELSE [q \in Procs |->
                           IF q = p /\ rt[p].phase = "fresh"
                           THEN [rt[p] EXCEPT !.wr = rt[p].wr \o buf]
                           ELSE IF node[q].data = d THEN RtOff ELSE rt[q]]
           /\ forced' = IF w.ok THEN ForcedDisturbed(d) ELSE forced
    /\ UNCHANGED <<storage, call, wins>>

\* AsyncSeek::poll_seek.  Where the arithmetic overflows, the call returns the
\* wrapped result or, in a build that checks overflow, panics: the unwinding
\* caller drops its node.
Seek(p, pos) ==
    /\ MemOnly
    /\ call[p].pc = "idle"
    /\ node[p].data # NoBuf
    /\ LET k == PollSeek(node[p], bufs[node[p].data], pos)
       IN  /\ \E checked \in BOOLEAN :
                 node' = IF k.overflow /\ checked
                         THEN [node EXCEPT ![p] = NoNode]
                         ELSE [node EXCEPT ![p].cursor = k.cursor]
           /\ rt' = [rt EXCEPT ![p] =
                 IF k.ok /\ rt[p].phase = "fresh" /\ pos = [kind |-> "Start", n |-> 0]
                 THEN [rt[p] EXCEPT !.phase = "rewound"]
                 ELSE RtOff]
    /\ forced' = [forced EXCEPT ![p] = IF node'[p] = NoNode THEN "no" ELSE @]
    /\ bufs' = Collect(bufs, storage, node', call)
    /\ UNCHANGED <<storage, call, wins>>

\* the caller drops its node: nothing but the handle goes away
DropNode(p) ==
    /\ MemOnly
    /\ call[p].pc = "idle"
    /\ node[p].data # NoBuf
    /\ node' = [node EXCEPT ![p] = NoNode]
    /\ rt' = [rt EXCEPT ![p] = RtOff]
    /\ forced' = [forced EXCEPT ![p] = "no"]
    /\ bufs' = Collect(bufs, storage, node', call)
    /\ UNCHANGED <<storage, call, wins>>

\* ------------------------------------------------------------------ Spec
\* NodeGetOptions::new(), no setter called yet
NewOptions == [opts |-> NoOpts, setter |-> "new", arg |-> FALSE]

\* no url: the None of `base_url`, and of a call that has no url yet
NoUrl == [scheme |-> "", path |-> <<>>, host |-> "", username |-> "",
          password |-> "", port |-> "", fragment |-> "", query |-> << >>]

\* SymLinkScheme::default(): a root node without base_url and without children
EmptyTrie == << >> :> NoUrl

NoCall == [op |-> "none", state |-> "idle", from |-> << >>, url |-> NoUrl,
           dest |-> NoUrl, via |-> << >>, nested |-> FALSE,
           cause |-> "", err |-> "", msg |-> ""]

NoMerge == [base_url |-> NoUrl, url |-> NoUrl, url_path |-> <<>>,
            called |-> FALSE, err |-> "", new_url |-> NoUrl]

\* the names schemes are registered under
SchemeNames == {"mem", "tmp"}

\* Vfs::with_capacity: no scheme is registered
NoSchemes == [name \in SchemeNames |-> NoBuf]

\* nothing is built, linked, resolved, merged or registered
NoSymLinks ==
    /\ builder = NewOptions
    /\ base = EmptyTrie
    /\ resolve = NoCall
    /\ merged = NoMerge
    /\ schemes = NoSchemes

SymLinksUnchanged == UNCHANGED <<builder, base, resolve, merged, schemes>>

\* empty stores, no overlay, no call made
NoStores ==
    /\ storage = [s \in Stores |-> [path \in Paths |-> NoBuf]]
    /\ bufs = [d \in BufIds |-> <<>>]
    /\ node = [p \in Procs |-> NoNode]
    /\ call = [p \in Procs |-> Idle]
    /\ overlays = <<>>
    /\ dir = <<>>
    /\ last = NoRes
    /\ yielded = <<>>
    /\ rt = [p \in Procs |-> RtOff]
    /\ forced = [p \in Procs |-> "no"]
    /\ wins = [s \in Stores |-> [path \in Paths |-> 0]]

Init == NoStores /\ NoSymLinks

\* the inputs of Spec: both threads open (create, create_new) and remove the
\* one path of store 1, thread 1 also reads, writes and seeks through its node
IoStore == 1
IoPaths == {"/x"}
IoProcs == {1}
IoModes == {OptCreateReadWrite, OptCreateNew}
IoWrites == {<<>>, <<0>>, <<0, 1>>}
IoReads == {1}
IoSeeks ==
    { [kind |-> "Start", n |-> 0], [kind |-> "Current", n |-> -1] }

\* the threads of Spec record no results
Next ==
    /\ SymLinksUnchanged
    /\ \E p \in Procs :
        \/ \E path \in IoPaths, o \in IoModes :
              GetNode(p, IoStore, path, o) /\ UNCHANGED last
        \/ GetNodeInsert(p) /\ UNCHANGED last
        \/ \E path \in IoPaths, force \in BOOLEAN :
              RemoveNode(p, IoStore, path, force) /\ UNCHANGED last
        \/ RemoveNodeClear(p) /\ UNCHANGED last
        \/ \E n \in IoReads : p \in IoProcs /\ Read(p, n) /\ UNCHANGED last
        \/ \E buf \in IoWrites : p \in IoProcs /\ Write(p, buf) /\ UNCHANGED last
        \/ \E pos \in IoSeeks : p \in IoProcs /\ Seek(p, pos) /\ UNCHANGED last
        \/ DropNode(p) /\ UNCHANGED last

Spec == Init /\ [][Next]_vars

\* C1: a handle that created an absent path with create+read+write, wrote B
\* (in any number of writes), sought to Start(0) and read until a read returned
\* no bytes has read exactly B: same bytes, same order, same length.
RoundTrip ==
    \A p \in Procs : rt[p].phase = "eof" => rt[p].rd = rt[p].wr

RoundTripDone ==
    \E p \in Procs : rt[p].phase = "eof" /\ rt[p].wr = <<0, 1>>

\* C3: of the create_new calls that run on one path of one MemoryScheme while
\* the path is absent, at most one succeeds.
CreateNewAtomic ==
    \A s \in Stores, path \in Paths : wins[s][path] <= 1

\* C33: a get_node with create and without create_new that found the path
\* absent and comes to its insert when a concurrent call has made the path
\* present leaves the map entry on the buffer it has and returns a node on
\* that buffer: the handles of both calls and the map share one buffer.
ConcurrentCreateShares ==
    [][ \A p \in Procs :
          ( /\ call[p].pc = "insert" /\ call'[p].pc = "idle"
            /\ ~call[p].opts.create_new
            /\ storage[call[p].store][call[p].path] # NoBuf ) =>
              /\ storage' = storage
              /\ node'[p].data = storage[call[p].store][call[p].path]
      ]_vars

\* C4: after remove_node(path, force = true) returned while a reading handle
\* was open on the path's non-empty buffer, the handle's next read, with no
\* write to the buffer in between, succeeds with zero bytes wherever its cursor
\* stands.
ForceRemoveReadsEmpty ==
    \A p \in Procs : forced[p] # "bad"

ForceRemoveRead ==
    \E p \in Procs : forced[p] = "empty" /\ node[p].cursor > 0

\* --------------------------------------------------------------- SpecSeq
\* the inputs of SpecSeq: one caller on the two paths of store 1
SeqStore == 1
SeqProcs == {1}
SeqPaths == {"/x", "/y"}
\* NodeGetOptions::new().create_new(true).create(false)
OptCreateNewNoCreate == [NoOpts EXCEPT !.write = TRUE, !.create_new = TRUE]
OptCreateAppend ==
    [NoOpts EXCEPT !.read = TRUE, !.write = TRUE, !.append = TRUE, !.create = TRUE]
SeqModes ==
    {OptRead, OptCreateReadWrite, OptCreateNew, OptCreateNewNoCreate,
     OptTruncate, OptCreateAppend}
SeqWrites == {<<1>>}
SeqReads == {2}
SeqSeeks == { [kind |-> "Start", n |-> 0], [kind |-> "End", n |-> -1] }

AllIdle == \A q \in Procs : call[q].pc = "idle"

\* the error get_node returns from its lookup, or ""
LookupError(stor, path, o) ==
    IF Lookup(stor, path, o) \in {"NodeAlreadyExists", "NodeDoesNotExist"}
    THEN Lookup(stor, path, o) ELSE ""

\* the call in flight returns Ok
Returns(p, op) ==
    last' = IF call'[p].pc = "idle"
            THEN [Res(op, call[p].path, call[p].opts, "", 0)
                     EXCEPT !.force = (call[p].pc = "clear")]
            ELSE last

SeqGetNode(p, path, o) ==
    /\ AllIdle
    /\ GetNode(p, SeqStore, path, o)
    /\ last' = IF call'[p].pc = "idle"
               THEN Res("get_node", path, o, LookupError(storage[SeqStore], path, o), 0)
               ELSE last

SeqRemoveNode(p, path, force) ==
    /\ AllIdle
    /\ RemoveNode(p, SeqStore, path, force)
    /\ last' = IF call'[p].pc = "idle"
               THEN [Res("remove_node", path, NoOpts,
                         IF storage[SeqStore][path] = NoBuf
                         THEN "NodeDoesNotExist" ELSE "", 0)
                        EXCEPT !.force = force]
               ELSE last

SeqRead(p, n) ==
    /\ AllIdle
    /\ Read(p, n)
    /\ LET r == PollRead(node[p], bufs[node[p].data], n)
       IN  last' = Res("read", "", NoOpts,
                       IF r.ok THEN "" ELSE "PermissionDenied", Len(r.bytes))

SeqWrite(p, buf) ==
    /\ AllIdle
    /\ Write(p, buf)
    /\ LET w == PollWrite(node[p], bufs[node[p].data], buf)
       IN  last' = Res("write", "", NoOpts,
                       IF w.ok THEN "" ELSE "PermissionDenied",
                       IF w.ok THEN Len(buf) ELSE 0)

SeqSeek(p, pos) ==
    /\ AllIdle
    /\ Seek(p, pos)
    /\ LET k == PollSeek(node[p], bufs[node[p].data], pos)
       IN  last' = Res("seek", "", NoOpts,
                       IF ~k.ok THEN "PermissionDenied"
                       ELSE IF node'[p] = NoNode THEN "panic" ELSE "", k.cursor)

NextSeq ==
    /\ SymLinksUnchanged
    /\ \E p \in SeqProcs :
        \/ \E path \in SeqPaths, o \in SeqModes : SeqGetNode(p, path, o)
        \/ GetNodeInsert(p) /\ Returns(p, "get_node")
        \/ GetNodeFinish(p) /\ Returns(p, "get_node")
        \/ \E path \in SeqPaths, force \in BOOLEAN : SeqRemoveNode(p, path, force)
        \/ RemoveNodeClear(p) /\ Returns(p, "remove_node")
        \/ \E n \in SeqReads : SeqRead(p, n)
        \/ \E buf \in SeqWrites : SeqWrite(p, buf)
        \/ \E pos \in SeqSeeks : SeqSeek(p, pos)
        \/ AllIdle /\ DropNode(p) /\ UNCHANGED last

SpecSeq == Init /\ [][NextSeq]_vars

\* C2: get_node with create_new on a present path fails with
\* NodeAlreadyExists and leaves the map and the buffers unchanged; on an absent
\* path it goes on to insert an empty buffer and returns Ok, a get_node without
\* create then finds the path, and only remove_node makes the path absent again.
CreateNewOutcome ==
    [][ /\ \A path \in SeqPaths, o \in SeqModes :
              (o.create_new /\ SeqGetNode(1, path, o)) =>
                  IF storage[SeqStore][path] # NoBuf
                  THEN /\ last'.err = "NodeAlreadyExists"
                       /\ UNCHANGED <<storage, bufs>>
                  ELSE call'[1].pc = "insert"
        /\ (call[1].pc = "insert" /\ call[1].opts.create_new /\ GetNodeInsert(1)) =>
              /\ storage'[SeqStore][call[1].path] # NoBuf
              /\ bufs'[storage'[SeqStore][call[1].path]] = <<>>
              /\ Lookup(storage'[SeqStore], call[1].path, OptRead) = "found"
        /\ \A path \in SeqPaths :
              (storage[SeqStore][path] # NoBuf /\ storage'[SeqStore][path] = NoBuf) =>
                  \E force \in BOOLEAN : RemoveNode(1, SeqStore, path, force)
      ]_vars

\* C5: remove_node(path, force = false) on a present path returns Ok and takes
\* only the path's entry out of the map: get_node without create on the path
\* fails with NodeDoesNotExist afterwards, every open handle is unchanged and
\* reads the content its buffer held before, and every other path is unchanged.
RemoveKeepsHandles ==
    [][ \A path \in SeqPaths :
          (storage[SeqStore][path] # NoBuf /\ SeqRemoveNode(1, path, FALSE)) =>
              /\ last'.err = ""
              /\ \A o \in Options :
                    ~o.create => Lookup(storage'[SeqStore], path, o) = "NodeDoesNotExist"
              /\ node' = node
              /\ \A q \in Procs :
                    node[q].data # NoBuf => bufs'[node[q].data] = bufs[node[q].data]
              /\ \A s \in Stores, other \in Paths :
                    <<s, other>> # <<SeqStore, path>> => storage'[s][other] = storage[s][other]
      ]_vars

RemovedWithHandle ==
    /\ last.op = "remove_node" /\ ~last.force /\ last.err = ""
    /\ storage[SeqStore][last.path] = NoBuf
    /\ node[1].data # NoBuf /\ bufs[node[1].data] # <<>>
    /\ \A path \in SeqPaths : storage[SeqStore][path] # node[1].data
    /\ \E other \in SeqPaths : storage[SeqStore][other] # NoBuf

\* ----------------------------------------------------------- OverlayScheme
\* a layer: its declared access and the scheme behind it.  Layer i of the
\* memory kind is the MemoryScheme `storage[i]`.
Layers == [access : {"Read", "Write", "ReadWrite"}, kind : {"memory", "data"}]
LayerLists == UNION {[1..n -> Layers] : n \in 1..MaxLayers}

\* the layers over a MemoryScheme
MemoryLayers == {i \in 1..Len(overlays) : overlays[i].kind = "memory"}

\* DataLoaderNode: reads, never writes, holds no shared buffer
DataLoaderNode == [data |-> NoBuf, cursor |-> 0, read |-> TRUE, write |-> FALSE]

\* the error layer i's get_node returns, or ""
LayerGetNodeError(i, path, o) ==
    IF overlays[i].kind = "memory"
    THEN LookupError(storage[i], path, o)
    ELSE IF Hierarchical(path) THEN "NodeDoesNotExist" ELSE ""

\* the error layer i's remove_node returns, or ""
LayerRemoveNodeError(i, path) ==
    IF overlays[i].kind = "memory" /\ storage[i][path] = NoBuf
    THEN "NodeDoesNotExist" ELSE ""

\* the error layer i's metadata returns, or ""
LayerMetadataError(i, path) ==
    IF overlays[i].kind = "memory"
    THEN IF storage[i][path] = NoBuf THEN "NodeDoesNotExist" ELSE ""
    ELSE IF Hierarchical(path) THEN "NodeDoesNotExist" ELSE ""

\* a get_node that asks every layer
AttemptsAlways(layer, o) == TRUE

\* get_node: the match guards, whether the layer is asked
Attempts(layer, o) ==
    CASE layer.access = "Read" -> o.read
      [] layer.access = "Write" -> o.write
      [] OTHER -> o.read \/ o.write

\* a remove_node that asks every layer
RemovesFromAlways(layer) == TRUE

\* remove_node: the match, whether the layer is asked
RemovesFrom(layer) == layer.access # "Read"

\* a metadata that skips the layers declared Write
MetadataFromReaders(layer) == layer.access # "Write"

\* metadata: the match, every layer is asked
MetadataFrom(layer) == TRUE

\* an overlay that returns the error of the layer it asked last
SurfaceLast(kinds) ==
    IF kinds = <<>> THEN "NodeDoesNotExist" ELSE kinds[Len(kinds)]

\* the Err after the loops: NodeDoesNotExist, whatever the errors `kinds` of
\* the layers asked were
AllFailed(kinds) == "NodeDoesNotExist"

\* the loops over `self.overlays.iter()`: from layer i on, after the layers in
\* tried were asked and failed
RECURSIVE OverlayGetNodeFrom(_, _, _, _)
OverlayGetNodeFrom(i, path, o, tried) ==
    IF i > Len(overlays)
    THEN [err |-> AllFailed([k \in 1..Len(tried) |->
                                LayerGetNodeError(tried[k], path, o)]),
          layer |-> 0, tried |-> tried]
    ELSE IF ~Attempts(overlays[i], o)
    THEN OverlayGetNodeFrom(i + 1, path, o, tried)
    ELSE IF LayerGetNodeError(i, path, o) = ""
    THEN [err |-> "", layer |-> i, tried |-> Append(tried, i)]
    ELSE OverlayGetNodeFrom(i + 1, path, o, Append(tried, i))

RECURSIVE OverlayRemoveNodeFrom(_, _, _)
OverlayRemoveNodeFrom(i, path, tried) ==
    IF i > Len(overlays)
    THEN [err |-> AllFailed([k \in 1..Len(tried) |->
                                LayerRemoveNodeError(tried[k], path)]),
          layer |-> 0, tried |-> tried]
    ELSE IF ~RemovesFrom(overlays[i])
    THEN OverlayRemoveNodeFrom(i + 1, path, tried)
    ELSE IF LayerRemoveNodeError(i, path) = ""
    THEN [err |-> "", layer |-> i, tried |-> Append(tried, i)]
    ELSE OverlayRemoveNodeFrom(i + 1, path, Append(tried, i))

RECURSIVE OverlayMetadataFrom(_, _, _)
OverlayMetadataFrom(i, path, tried) ==
    IF i > Len(overlays)
    THEN [err |-> AllFailed([k \in 1..Len(tried) |->
                                LayerMetadataError(tried[k], path)]),
          layer |-> 0, tried |-> tried]
    ELSE IF ~MetadataFrom(overlays[i])
    THEN OverlayMetadataFrom(i + 1, path, tried)
    ELSE IF LayerMetadataError(i, path) = ""
    THEN [err |-> "", layer |-> i, tried |-> Append(tried, i)]
    ELSE OverlayMetadataFrom(i + 1, path, Append(tried, i))

\* what an overlay call records: the layers it asked and the one that served
OverlayRes(op, path, o, force, g) ==
    [Res(op, path, o, g.err, 0)
        EXCEPT !.force = force, !.tried = g.tried, !.layer = g.layer]

\* nothing of the stores, the buffers or the handles changes
StoresUnchanged == UNCHANGED <<storage, bufs, node, call, rt, forced, wins>>

\* OverlayScheme::get_node: the first asked layer that succeeds serves the
\* call; a memory layer goes on as MemoryScheme::get_node does
OverlayGetNode(p, path, o) ==
    /\ AllIdle
    /\ LET g == OverlayGetNodeFrom(1, path, o, <<>>)
       IN  /\ last' = OverlayRes("overlay.get_node", path, o, FALSE, g)
           /\ IF g.layer = 0
              THEN MemOnly /\ StoresUnchanged
              ELSE IF overlays[g.layer].kind = "memory"
              THEN GetNode(p, g.layer, path, o)
              ELSE /\ MemOnly
                   /\ node' = [node EXCEPT ![p] = DataLoaderNode]
                   /\ rt' = [rt EXCEPT ![p] = RtOff]
                   /\ forced' = [forced EXCEPT ![p] = "no"]
                   /\ bufs' = Collect(bufs, storage, node', call)
                   /\ UNCHANGED <<storage, call, wins>>

\* OverlayScheme::remove_node
OverlayRemoveNode(p, path, force) ==
    /\ AllIdle
    /\ LET g == OverlayRemoveNodeFrom(1, path, <<>>)
       IN  /\ last' = OverlayRes("overlay.remove_node", path, NoOpts, force, g)
           /\ IF g.layer # 0 /\ overlays[g.layer].kind = "memory"
              THEN RemoveNode(p, g.layer, path, force)
              ELSE MemOnly /\ StoresUnchanged

\* OverlayScheme::metadata
OverlayMetadata(p, path) ==
    /\ AllIdle
    /\ last' = OverlayRes("overlay.metadata", path, NoOpts, FALSE,
                          OverlayMetadataFrom(1, path, <<>>))
    /\ MemOnly /\ StoresUnchanged

\* OverlayScheme::read_dir, MemoryScheme::read_dir: the path the listing is
\* rooted at, `url.path()` cut after its last '/'
ReadDirRoot(path) ==
    CASE path = "/" -> "/"
      [] Hierarchical(path) -> ""
      [] OTHER -> "/"

\* `path.starts_with(root_path)`
StartsWith(path, root) == root = "" \/ (root = "/" /\ Hierarchical(path))

\* the orders `self.storage.clone().into_iter()` can yield the keys of store s in
KeyOrders(s) ==
    LET keys == {path \in DOMAIN storage[s] : storage[s][path] # NoBuf}
    IN  {f \in [1..Cardinality(keys) -> keys] :
            \A a, b \in 1..Cardinality(keys) : a # b => f[a] # f[b]}

\* the Vec read_dir builds: it walks the layers from the last declared to the
\* first and pushes the stream of each layer whose read_dir succeeds (a
\* DataLoaderScheme's never does); ord[i] is the order of layer i's iterator
RECURSIVE Streams(_, _, _)
Streams(i, ord, root) ==
    IF i = 0 THEN <<>>
    ELSE (IF overlays[i].kind = "memory"
          THEN << [layer |-> i, iter |-> ord[i], root |-> root] >>
          ELSE <<>>) \o Streams(i - 1, ord, root)

NoEntry == [layer |-> 0, path |-> ""]

\* MemoryReadDir::poll_next: skip the keys outside the root
RECURSIVE MemoryPollNext(_)
MemoryPollNext(stream) ==
    IF stream.iter = <<>>
    THEN [stream |-> stream, entry |-> NoEntry]
    ELSE IF StartsWith(Head(stream.iter), stream.root)
    THEN [stream |-> [stream EXCEPT !.iter = Tail(@)],
          entry |-> [layer |-> stream.layer, path |-> Head(stream.iter)]]
    ELSE MemoryPollNext([stream EXCEPT !.iter = Tail(@)])

\* a poll_next that polls the stream at the bottom of the Vec
RECURSIVE OverlayPollFirst(_)
OverlayPollFirst(streams) ==
    IF streams = <<>>
    THEN [streams |-> streams, entry |-> NoEntry]
    ELSE LET r == MemoryPollNext(Head(streams))
         IN  IF r.entry = NoEntry
             THEN OverlayPollFirst(Tail(streams))
             ELSE [streams |-> <<r.stream>> \o Tail(streams), entry |-> r.entry]

\* a poll_next that pops the stream it took an entry from
RECURSIVE OverlayPollPopping(_)
OverlayPollPopping(streams) ==
    IF streams = <<>>
    THEN [streams |-> streams, entry |-> NoEntry]
    ELSE LET r == MemoryPollNext(streams[Len(streams)])
         IN  IF r.entry = NoEntry
             THEN OverlayPollPopping(SubSeq(streams, 1, Len(streams) - 1))
             ELSE [streams |-> SubSeq(streams, 1, Len(streams) - 1),
                   entry |-> r.entry]

\* OverlayReadDir::poll_next: poll `self.0.last_mut()`, pop it when it is done
RECURSIVE OverlayPollNext(_)
OverlayPollNext(streams) ==
    IF streams = <<>>
    THEN [streams |-> streams, entry |-> NoEntry]
    ELSE LET r == MemoryPollNext(streams[Len(streams)])
         IN  IF r.entry = NoEntry
             THEN OverlayPollNext(SubSeq(streams, 1, Len(streams) - 1))
             ELSE [streams |-> [streams EXCEPT ![Len(streams)] = r.stream],
                   entry |-> r.entry]

\* OverlayScheme::read_dir: always Ok
OverlayReadDir(p, path) ==
    /\ AllIdle
    /\ \E ord \in [1..Len(overlays) -> UNION {KeyOrders(s) : s \in Stores}] :
          /\ \A i \in 1..Len(overlays) : ord[i] \in KeyOrders(i)
          /\ dir' = Streams(Len(overlays), ord, ReadDirRoot(path))
    /\ yielded' = <<>>
    /\ last' = Res("overlay.read_dir", path, NoOpts, "", 0)
    /\ UNCHANGED overlays
    /\ StoresUnchanged

\* StreamExt::next on the stream read_dir returned
PollNext(p) ==
    /\ AllIdle
    /\ last.op \in {"overlay.read_dir", "poll_next"}
    /\ LET r == OverlayPollNext(dir)
       IN  /\ dir' = r.streams
           /\ yielded' = IF r.entry = NoEntry THEN yielded ELSE Append(yielded, r.entry)
           /\ last' = [Res("poll_next", last.path, NoOpts, "", 0)
                          EXCEPT !.layer = r.entry.layer]
    /\ UNCHANGED overlays
    /\ StoresUnchanged

\* ----------------------------------------------------------- SpecOverlay
\* the content of every node stored before the overlay is mounted
Stored == <<1>>

PathRank(path) == CASE path = "/x" -> 1 [] path = "/y" -> 2 [] OTHER -> 3

\* the buffer of a stored node: buffers are numbered store by store
SlotId(present, s, path) ==
    Cardinality({t \in present :
        t[1] < s \/ (t[1] = s /\ PathRank(t[2]) <= PathRank(path))})

\* an OverlayScheme built over memory stores that hold some of the paths and
\* over data loaders; nothing else was called yet
Mounted(paths) ==
    /\ overlays \in LayerLists
    /\ \E present \in SUBSET (Stores \X paths) :
          /\ \A t \in present :
                t[1] <= Len(overlays) /\ overlays[t[1]].kind = "memory"
          /\ Cardinality(present) <= MaxBufs
          /\ storage = [s \in Stores |-> [path \in Paths |->
                          IF <<s, path>> \in present
                          THEN SlotId(present, s, path) ELSE NoBuf]]
          /\ bufs = [d \in BufIds |->
                          IF d <= Cardinality(present) THEN Stored ELSE <<>>]
    /\ node = [p \in Procs |-> NoNode]
    /\ call = [p \in Procs |-> Idle]
    /\ dir = <<>>
    /\ last = NoRes
    /\ yielded = <<>>
    /\ rt = [p \in Procs |-> RtOff]
    /\ forced = [p \in Procs |-> "no"]
    /\ wins = [s \in Stores |-> [path \in Paths |-> 0]]
    /\ NoSymLinks

\* the inputs of SpecOverlay: one caller makes one call on the overlay, with
\* any NodeGetOptions value
OvProcs == {1}
OvPaths == {"/x", "blah"}

InitOverlay == Mounted(OvPaths)

NextOverlay ==
    /\ SymLinksUnchanged
    /\ \E p \in OvProcs :
        \/ \E path \in OvPaths, o \in Options :
              last = NoRes /\ OverlayGetNode(p, path, o)
        \/ GetNodeInsert(p) /\ UNCHANGED last
        \/ GetNodeFinish(p) /\ UNCHANGED last
        \/ \E path \in OvPaths, force \in BOOLEAN :
              last = NoRes /\ OverlayRemoveNode(p, path, force)
        \/ RemoveNodeClear(p) /\ UNCHANGED last
        \/ \E path \in OvPaths : last = NoRes /\ OverlayMetadata(p, path)
        \/ \E path \in OvPaths : last = NoRes /\ OverlayReadDir(p, path)

SpecOverlay == InitOverlay /\ [][NextOverlay]_vars

\* the members of a set of layers, in declared order
InOrder(S) ==
    CHOOSE f \in [1..Cardinality(S) -> S] :
        \A a, b \in 1..Cardinality(S) : a < b => f[a] < f[b]

First(S) == CHOOSE m \in S : \A k \in S : m <= k

\* C6: OverlayScheme::get_node asks exactly the layers that are Read with
\* options.read, Write with options.write, or ReadWrite with either, in declared
\* order, up to the first that succeeds; every layer it asked before that one
\* failed; it returns that layer's node, or NodeDoesNotExist when none succeeds.
GetNodeResolution ==
    last.op = "overlay.get_node" =>
        LET o == last.opts
            E == {i \in 1..Len(overlays) :
                    \/ overlays[i].access = "Read" /\ o.read
                    \/ overlays[i].access = "Write" /\ o.write
                    \/ overlays[i].access = "ReadWrite" /\ (o.read \/ o.write)}
            upto == IF last.layer = 0 THEN Len(overlays) + 1 ELSE last.layer
        IN  /\ last.tried = InOrder({i \in E : i <= upto})
            /\ \A i \in E : i < upto => LayerGetNodeError(i, last.path, o) # ""
            /\ IF last.layer = 0
               THEN last.err = "NodeDoesNotExist" /\ node[1] = NoNode
               ELSE /\ last.err = "" /\ last.layer \in E
                    /\ AllIdle =>
                          IF overlays[last.layer].kind = "memory"
                          THEN /\ node[1].data # NoBuf
                               /\ node[1].data = storage[last.layer][last.path]
                          ELSE node[1] = DataLoaderNode

ReadOfWriteLayerFails ==
    /\ last.op = "overlay.get_node" /\ last.opts = OptRead
    /\ last.err = "NodeDoesNotExist"
    /\ \E i \in MemoryLayers :
          overlays[i].access = "Write" /\ storage[i][last.path] # NoBuf
    /\ \A i \in MemoryLayers :
          storage[i][last.path] # NoBuf => overlays[i].access = "Write"

\* C7: a get_node with options.write set leaves the stores of the layers
\* declared Read as if it had never been forwarded to them: after it, no node of
\* such a store is new or truncated and the caller holds no writable node on
\* one.
WritersSkipReadLayers ==
    (last.op = "overlay.get_node" /\ last.opts.write) =>
        \A i \in MemoryLayers, path \in Paths :
            (overlays[i].access = "Read" /\ storage[i][path] # NoBuf) =>
                /\ bufs[storage[i][path]] = Stored
                /\ ~(node[1].data = storage[i][path] /\ node[1].write)

\* C39: once OverlayScheme::get_node was called with create_new on a path that
\* a layer eligible for the request holds, no step of the call adds the path
\* to a layer that did not hold it.
CreateNewNoDuplicate ==
    [][ ( /\ last'.op = "overlay.get_node" /\ last'.opts.create_new
          /\ \E i \in MemoryLayers :
                Attempts(overlays[i], last'.opts) /\ storage[i][last'.path] # NoBuf ) =>
            \A j \in MemoryLayers :
                storage'[j][last'.path] # NoBuf => storage[j][last'.path] # NoBuf
      ]_vars

\* C8: OverlayScheme::remove_node asks exactly the Write and ReadWrite layers,
\* in declared order, up to the first whose remove_node succeeds; only that
\* layer's store loses the path and no other node changes; when none succeeds
\* it fails with NodeDoesNotExist and nothing changes.
RemoveResolution ==
    [][ /\ \A path \in OvPaths, force \in BOOLEAN :
              OverlayRemoveNode(1, path, force) =>
                  LET W == {i \in 1..Len(overlays) :
                              overlays[i].access \in {"Write", "ReadWrite"}}
                      S == {i \in W : LayerRemoveNodeError(i, path) = ""}
                  IN  IF S = {}
                      THEN /\ last'.err = "NodeDoesNotExist" /\ last'.layer = 0
                           /\ last'.tried = InOrder(W)
                           /\ UNCHANGED <<storage, bufs>>
                      ELSE /\ last'.err = "" /\ last'.layer = First(S)
                           /\ last'.tried = InOrder({i \in W : i <= First(S)})
                           /\ \A i \in Stores, other \in Paths :
                                 storage'[i][other] =
                                    IF i = First(S) /\ other = path
                                    THEN NoBuf ELSE storage[i][other]
                           /\ \A i \in Stores, other \in Paths :
                                 storage'[i][other] # NoBuf =>
                                    bufs'[storage'[i][other]] = bufs[storage[i][other]]
        /\ RemoveNodeClear(1) =>
              /\ UNCHANGED storage
              /\ \A i \in Stores, other \in Paths :
                    storage[i][other] # NoBuf =>
                        bufs'[storage[i][other]] = bufs[storage[i][other]]
      ]_vars

RemoveSkipsReadLayer ==
    /\ overlays = << [access |-> "Write", kind |-> "memory"],
                     [access |-> "Read", kind |-> "memory"] >>
    /\ last.op = "overlay.remove_node" /\ last.path = "/x" /\ ~last.force
    /\ last.err = "NodeDoesNotExist" /\ last.tried = <<1>>
    /\ storage[1]["/x"] = NoBuf /\ storage[2]["/x"] # NoBuf

\* C9: OverlayScheme::metadata asks every layer in declared order, whatever its
\* declared access, up to the first whose metadata succeeds, and fails with
\* NodeDoesNotExist when none succeeds.
MetadataResolution ==
    last.op = "overlay.metadata" =>
        LET S == {i \in 1..Len(overlays) : LayerMetadataError(i, last.path) = ""}
        IN  IF S = {}
            THEN /\ last.err = "NodeDoesNotExist" /\ last.layer = 0
                 /\ last.tried = InOrder(1..Len(overlays))
            ELSE /\ last.err = "" /\ last.layer = First(S)
                 /\ last.tried = InOrder(1..First(S))

MetadataOfWriteLayer ==
    /\ last.op = "overlay.metadata" /\ last.err = ""
    /\ overlays[last.layer].access = "Write"
    /\ \A i \in 1..Len(overlays) :
          i # last.layer => LayerMetadataError(i, last.path) # ""
    /\ OverlayGetNodeFrom(1, last.path, OptRead, <<>>).err = "NodeDoesNotExist"

\* the three calls that fail once every layer they asked failed
FailsWhenAllFail ==
    /\ \A path \in OvPaths, o \in Options :
          OverlayGetNode(1, path, o) =>
              /\ last'.err \in {"", "NodeDoesNotExist"}
              /\ last'.err = "NodeDoesNotExist" <=>
                    \A k \in 1..Len(last'.tried) :
                        LayerGetNodeError(last'.tried[k], path, o) # ""
    /\ \A path \in OvPaths, force \in BOOLEAN :
          OverlayRemoveNode(1, path, force) =>
              /\ last'.err \in {"", "NodeDoesNotExist"}
              /\ last'.err = "NodeDoesNotExist" <=>
                    \A k \in 1..Len(last'.tried) :
                        LayerRemoveNodeError(last'.tried[k], path) # ""
    /\ \A path \in OvPaths :
          OverlayMetadata(1, path) =>
              /\ last'.err \in {"", "NodeDoesNotExist"}
              /\ last'.err = "NodeDoesNotExist" <=>
                    \A k \in 1..Len(last'.tried) :
                        LayerMetadataError(last'.tried[k], path) # ""

\* C12, amended: get_node, remove_node and metadata of an OverlayScheme fail
\* when every layer they asked failed, always with NodeDoesNotExist whatever
\* the layers' errors were, and succeed otherwise; read_dir never fails: when
\* no layer's read_dir succeeds it returns Ok with a stream that holds no
\* layer stream and so yields no entry.
AggregateFailure ==
    [][ /\ FailsWhenAllFail
        /\ \A path \in OvPaths :
              OverlayReadDir(1, path) =>
                  /\ last'.err = ""
                  /\ MemoryLayers = {} => dir' = <<>>
      ]_vars

\* C12 as stated: each of get_node, remove_node, metadata and read_dir fails
\* with NodeDoesNotExist when every layer it asked failed
AggregateFailureOfAll ==
    [][ /\ FailsWhenAllFail
        /\ \A path \in OvPaths :
              (MemoryLayers = {} /\ OverlayReadDir(1, path)) =>
                  last'.err = "NodeDoesNotExist"
      ]_vars

AlreadyExistsSwallowed ==
    /\ last.op = "overlay.get_node" /\ last.err = "NodeDoesNotExist"
    /\ \E k \in 1..Len(last.tried) :
          LayerGetNodeError(last.tried[k], last.path, last.opts) = "NodeAlreadyExists"

\* --------------------------------------------------------------- SpecDir
\* the inputs of SpecDir: one caller lists the overlay once and drains the
\* stream
DirPaths == {"/x", "/y", "blah"}
DirUrls == {"/", "/x"}

InitDir == Mounted(DirPaths)

NextDir ==
    /\ SymLinksUnchanged
    /\ \E p \in OvProcs :
        \/ \E path \in DirUrls : last = NoRes /\ OverlayReadDir(p, path)
        \/ PollNext(p)

SpecDir == InitDir /\ [][NextDir]_vars

\* C10: the stream OverlayScheme::read_dir returns yields the entries of the
\* first-declared layer that lists, then those of the layer declared after it,
\* and so on to the last-declared layer: an entry is never followed by an entry
\* of an earlier-declared layer, and the streams still to drain are of later
\* layers.
FirstDeclaredFirst ==
    /\ \A a, b \in 1..Len(yielded) : a < b => yielded[a].layer <= yielded[b].layer
    /\ \A a \in 1..Len(yielded), k \in 1..Len(dir) : yielded[a].layer <= dir[k].layer

\* C10 as stated: the last-declared layer's entries come first
LastDeclaredFirst ==
    \A a, b \in 1..Len(yielded) : a < b => yielded[a].layer >= yielded[b].layer

DrainedInDeclaredOrder ==
    /\ last.op = "poll_next" /\ last.layer = 0
    /\ Len(yielded) = 3
    /\ yielded[1].layer = 1 /\ yielded[2].layer = 1 /\ yielded[3].layer = 2

\* the number of times the stream yielded `path` as an entry of layer i
Yields(i, path) ==
    Cardinality({a \in 1..Len(yielded) :
        yielded[a] = [layer |-> i, path |-> path]})

\* C11: once the stream OverlayScheme::read_dir returned has ended, it has
\* yielded every entry of every layer whose read_dir succeeded exactly once per
\* layer and nothing else: a layer whose read_dir failed contributes nothing,
\* a path that k layers list was yielded k times, and the stream ended after
\* as many entries as the layers list together.
NoDedupNoLoss ==
    (last.op = "poll_next" /\ last.layer = 0) =>
        /\ \A i \in Stores, path \in Paths :
              Yields(i, path) =
                  IF /\ i <= Len(overlays)
                     /\ overlays[i].kind = "memory"
                     /\ storage[i][path] # NoBuf
                     /\ StartsWith(path, ReadDirRoot(last.path))
                  THEN 1 ELSE 0
        /\ \A a \in 1..Len(yielded) : yielded[a].layer \in 1..Len(overlays)
        /\ Len(yielded) <= MaxBufs

ListedTwice ==
    /\ last.op = "poll_next" /\ last.layer = 0
    /\ \E a, b \in 1..Len(yielded) :
          a # b /\ yielded[a].path = yielded[b].path
    /\ \E path \in DirPaths, i \in 1..Len(overlays) :
          storage[i][path] # NoBuf /\ Yields(i, path) = 0

\* ----------------------------------------------------------- SpecOptions
\* the setters of NodeGetOptions
SetRead(o, read) == [o EXCEPT !.read = read]

SetWrite(o, write) == [o EXCEPT !.write = write]

SetAppend(o, append) == [o EXCEPT !.append = append]

SetTruncate(o, truncate) ==
    [o EXCEPT !.write = IF truncate THEN TRUE ELSE o.write,
              !.truncate = truncate]

SetCreate(o, create) ==
    [o EXCEPT !.write = IF create THEN TRUE ELSE o.write,
              !.create = create]

SetCreateNew(o, create_new) ==
    [o EXCEPT !.write = IF create_new THEN TRUE ELSE o.write,
              !.create = IF create_new THEN TRUE ELSE o.create,
              !.create_new = create_new]

\* one setter call on the value being built
Setter(name, arg) ==
    /\ builder' = [opts |-> CASE name = "read" -> SetRead(builder.opts, arg)
                           [] name = "write" -> SetWrite(builder.opts, arg)
                           [] name = "append" -> SetAppend(builder.opts, arg)
                           [] name = "truncate" -> SetTruncate(builder.opts, arg)
                           [] name = "create" -> SetCreate(builder.opts, arg)
                           [] OTHER -> SetCreateNew(builder.opts, arg),
                    setter |-> name, arg |-> arg]
    /\ UNCHANGED <<storage, bufs, node, call, overlays, dir, last, yielded, rt,
                   forced, wins, base, resolve, merged, schemes>>

NextOptions ==
    \/ \E arg \in BOOLEAN : Setter("read", arg)
    \/ \E arg \in BOOLEAN : Setter("write", arg)
    \/ \E arg \in BOOLEAN : Setter("append", arg)
    \/ \E arg \in BOOLEAN : Setter("truncate", arg)
    \/ \E arg \in BOOLEAN : Setter("create", arg)
    \/ \E arg \in BOOLEAN : Setter("create_new", arg)

SpecOptions == Init /\ [][NextOptions]_vars

\* C20: whatever setters were called on NodeGetOptions::new(), with whatever
\* arguments, the value has truncate => write, create => write and
\* create_new => (write and create).
DerivedFlags ==
    /\ builder.opts.truncate => builder.opts.write
    /\ builder.opts.create => builder.opts.write
    /\ builder.opts.create_new => (builder.opts.write /\ builder.opts.create)

\* ----------------------------------------------------------- SymLinkScheme
\* A path is the sequence of its characters, a url the record of its
\* components; "" and << >> stand for a component the url does not have.
MAX_SYMLINK_PATH_SEGMENTS == 16

\* the index of the first c in s, 0 when there is none
IndexOf(s, c) ==
    IF \E i \in 1..Len(s) : s[i] = c
    THEN CHOOSE i \in 1..Len(s) : s[i] = c /\ \A j \in 1..(i - 1) : s[j] # c
    ELSE 0

\* `&s[n..]`
Drop(s, n) == SubSeq(s, n + 1, Len(s))

\* `s.split('/')`
RECURSIVE Split(_)
Split(s) ==
    IF IndexOf(s, "/") = 0 THEN << s >>
    ELSE << SubSeq(s, 1, IndexOf(s, "/") - 1) >> \o Split(Drop(s, IndexOf(s, "/")))

\* Url::path_segments: the split of the path after its leading '/', None
\* (here << >>) for a path without one
PathSegments(path) ==
    IF path # << >> /\ path[1] = "/" THEN Split(Tail(path)) ELSE << >>

\* Url::cannot_be_a_base: nothing after `scheme:` starts with '/'
CannotBeABase(u) == u.host = "" /\ (u.path = << >> \/ u.path[1] # "/")

\* Url::parse of "x:" followed by `from`: the fragment starts at the first
\* '#', the query at the first '?' before it, an authority follows a leading
\* "//" and ends at the next '/'
ParseFrom(from) ==
    LET noFragment == IF IndexOf(from, "#") = 0 THEN from
                      ELSE SubSeq(from, 1, IndexOf(from, "#") - 1)
        noQuery == IF IndexOf(noFragment, "?") = 0 THEN noFragment
                   ELSE SubSeq(noFragment, 1, IndexOf(noFragment, "?") - 1)
        hasHost == Len(noQuery) > 2 /\ noQuery[1] = "/" /\ noQuery[2] = "/"
        afterHost == Drop(noQuery, 2)
    IN  [path |-> IF ~hasHost THEN noQuery
                  ELSE IF IndexOf(afterHost, "/") = 0 THEN << >>
                  ELSE Drop(afterHost, IndexOf(afterHost, "/") - 1),
         has_host |-> hasHost,
         fragment |-> IndexOf(from, "#") # 0,
         query |-> IndexOf(noFragment, "?") # 0]

\* SymLinkScheme::validate_from_url_path: the message of its Err, or ""
ValidateFromUrlPath(from) ==
    LET u == ParseFrom(from)
    IN  IF u.path # << >> /\ u.path[Len(u.path)] = "/"
        THEN "from path has trailing /"
        ELSE IF u.has_host THEN "from path has host, must only be a path"
        ELSE IF u.fragment THEN "from path has fragment, must only be a path"
        ELSE IF u.query THEN "from path has query, must only be a path"
        ELSE ""

\* a walk whose new nodes are born with a target
WithNodesLinked(trie, segs, k) ==
    [nd \in DOMAIN trie \cup {SubSeq(segs, 1, j) : j \in 1..k} |->
        IF nd \in DOMAIN trie THEN trie[nd]
        ELSE [NoUrl EXCEPT !.scheme = "mem", !.path = << "/" >>]]

\* the trie after `entry(segment).or_insert_with(Default::default)` along the
\* first k segments
WithNodes(trie, segs, k) ==
    [nd \in DOMAIN trie \cup {SubSeq(segs, 1, j) : j \in 1..k} |->
        IF nd \in DOMAIN trie THEN trie[nd] ELSE NoUrl]

\* link: `depth >= MAX_SYMLINK_PATH_SEGMENTS`
DepthExceeded(depth) == depth >= MAX_SYMLINK_PATH_SEGMENTS

\* the depth at which the loop of link returns its Err, 0 when it does not
RECURSIVE ErrDepth(_, _)
ErrDepth(n, depth) ==
    IF depth > n THEN 0
    ELSE IF DepthExceeded(depth) THEN depth
    ELSE ErrDepth(n, depth + 1)

\* a link that replaces the target of a node that has one
AlreadySetNever(url) == FALSE

\* link: `node.base_url.is_some()`
AlreadySet(url) == url # NoUrl

\* SymLinkScheme::link: the kind and message of its Err, or "", and the trie
\* it leaves
LinkResult(trie, from, to) ==
    LET msg == ValidateFromUrlPath(from)
        path == ParseFrom(from).path
        segs == PathSegments(path)
        stop == ErrDepth(Len(segs), 1)
        grown == WithNodes(trie, segs, IF stop = 0 THEN Len(segs) ELSE stop - 1)
        failed(m, t) == [err |-> "GenericError", msg |-> m, base |-> t]
    IN  IF msg # "" THEN failed(msg, trie)
        ELSE IF segs # << >>
        THEN IF stop # 0
             THEN failed("max symlink path segment depth exceeded, limit is 16", grown)
             ELSE IF AlreadySet(grown[segs])
             THEN failed("url already set at link, remove it first", grown)
             ELSE [err |-> "", msg |-> "", base |-> [grown EXCEPT ![segs] = to]]
        ELSE IF path = << >>
        THEN IF AlreadySet(trie[<< >>])
             THEN failed("url already set at link, remove it first", trie)
             ELSE [err |-> "", msg |-> "", base |-> [trie EXCEPT ![<< >>] = to]]
        ELSE failed("relative symlink is not allowed", trie)

\* Url::set_path: a url that cannot be a base escapes a leading '/', any other
\* gets one when the path has none
SetPath(u, path) ==
    [u EXCEPT !.path =
        IF CannotBeABase(u)
        THEN IF path # << >> /\ path[1] = "/" THEN << "%2F" >> \o Tail(path) ELSE path
        ELSE IF path # << >> /\ path[1] # "/" THEN << "/" >> \o path ELSE path]

\* a merge that lets the request repeat the value the base url has
OverridesIfDifferent(mine, theirs) == mine # "" /\ theirs # "" /\ mine # theirs

\* merge_urls: the request defines a component the base url defines
Overrides(mine, theirs) == mine # "" /\ theirs # ""

\* SymLinkScheme::merge_urls: the kind and message of the first Err, or "", and
\* the url built.  Url::set_host fails on a url that cannot be a base,
\* set_username, set_password and set_port on a url without host.
MergeUrls(base_url, url, url_path) ==
    LET withPath == SetPath(base_url, base_url.path \o url_path)
        host == IF url.host # "" THEN url.host ELSE base_url.host
        e == IF Overrides(base_url.host, url.host)
                THEN << "GenericError", "unable to override host in url in symlink" >>
             ELSE IF url.host # "" /\ CannotBeABase(withPath)
                THEN << "UrlParseError", "" >>
             ELSE IF Overrides(base_url.username, url.username)
                THEN << "GenericError", "unable to override username in url in symlink" >>
             ELSE IF url.username # "" /\ host = ""
                THEN << "GenericError", "failed to rewrite username in symlink url" >>
             ELSE IF Overrides(base_url.password, url.password)
                THEN << "GenericError", "unable to override password in url in symlink" >>
             ELSE IF url.password # "" /\ host = ""
                THEN << "GenericError", "failed to rewrite password in symlink url" >>
             ELSE IF Overrides(base_url.port, url.port)
                THEN << "GenericError", "unable to override port in url in symlink" >>
             ELSE IF url.port # "" /\ host = ""
                THEN << "GenericError", "failed to rewrite port in symlink url" >>
             ELSE IF Overrides(base_url.fragment, url.fragment)
                THEN << "GenericError", "unable to override fragment in url in symlink" >>
             ELSE << "", "" >>
        pick(mine, theirs) == IF theirs # "" THEN theirs ELSE mine
    IN  [err |-> e[1], msg |-> e[2],
         url |-> IF e[1] # "" THEN NoUrl
                 ELSE [withPath EXCEPT
                         !.host = host,
                         !.username = pick(base_url.username, url.username),
                         !.password = pick(base_url.password, url.password),
                         !.port = pick(base_url.port, url.port),
                         !.fragment = pick(base_url.fragment, url.fragment),
                         !.query = IF url.query = << >> THEN base_url.query
                                   ELSE IF base_url.query = << >> THEN url.query
                                   ELSE base_url.query \o << "&" >> \o url.query]]

\* a walk that keeps the first node with a base_url it meets
RememberFirst(trie, child, valid_path_len, idx) ==
    IF trie[child] # NoUrl /\ valid_path_len = 0 /\ trie[<< >>] = NoUrl
    THEN idx + 1 ELSE valid_path_len

\* get_symlink_dest: `valid_path_len` once the walk has entered child at idx
Remember(trie, child, valid_path_len, idx) ==
    IF trie[child] # NoUrl THEN idx + 1 ELSE valid_path_len

\* get_symlink_dest: the loop over the first MAX_SYMLINK_PATH_SEGMENTS
\* segments, from segment idx on; it breaks at the first segment that is no
\* child of cur_node and returns valid_path_len
RECURSIVE Walk(_, _, _, _, _)
Walk(trie, segs, idx, cur_node, valid_path_len) ==
    IF idx >= Len(segs) \/ idx >= MAX_SYMLINK_PATH_SEGMENTS
    THEN valid_path_len
    ELSE LET child == Append(cur_node, segs[idx + 1])
         IN  IF child \in DOMAIN trie
             THEN Walk(trie, segs, idx + 1, child,
                       Remember(trie, child, valid_path_len, idx))
             ELSE valid_path_len

\* the fold over valid_node_path: `&path[segment.len() + 1..]` for each of the
\* first k segments
RECURSIVE StripSegments(_, _, _)
StripSegments(path, segs, k) ==
    IF k = 0 THEN path
    ELSE StripSegments(Drop(path, Len(Head(segs)) + 1), Tail(segs), k - 1)

\* `trim_start_matches('/')`
RECURSIVE TrimStart(_)
TrimStart(path) ==
    IF path # << >> /\ path[1] = "/" THEN TrimStart(Tail(path)) ELSE path

\* SymLinkScheme::get_symlink_dest: the Err or the merged url, and the trie
\* node whose base_url it used
GetSymlinkDest(trie, url) ==
    LET segs == PathSegments(url.path)
        len == Walk(trie, segs, 0, << >>, 0)
        valid_node == SubSeq(segs, 1, len)
        absent == [err |-> "NodeDoesNotExist", msg |-> "", url |-> NoUrl]
    IN  IF segs # << >>
        THEN IF trie[valid_node] # NoUrl
             THEN [via |-> valid_node] @@
                  MergeUrls(trie[valid_node], url,
                            TrimStart(StripSegments(url.path, segs, len)))
             ELSE [via |-> << >>] @@ absent
        ELSE IF trie[<< >>] # NoUrl
             THEN [via |-> << >>] @@ MergeUrls(trie[<< >>], url, url.path)
             ELSE [via |-> << >>] @@ absent

\* ------------------------------------------------------------- SpecMerge
\* the urls Url::parse can return over one value per component (two hosts for
\* the request): a username, a password or a port come with a host, and a
\* url that cannot be a base has none
UrlsOf(scheme, paths, hosts) ==
    {u \in [scheme : {scheme}, path : paths, host : hosts \cup {""},
            username : {"", "u"}, password : {"", "p"}, port : {"", "80"},
            fragment : {"", "f"}, query : {<< >>, << "q" >>}] :
        (u.username # "" \/ u.password # "" \/ u.port # "") => u.host # ""}

\* merge_urls about to be called with a base url mem:, mem:/l or one with host
\* h, a request sl:/a/c with host h, g or none, and the suffix "c"
InitMerge ==
    /\ NoStores
    /\ builder = NewOptions
    /\ base = EmptyTrie
    /\ resolve = NoCall
    /\ schemes = NoSchemes
    /\ merged \in {[NoMerge EXCEPT !.base_url = b, !.url = u, !.url_path = << "c" >>] :
                      b \in UrlsOf("mem", {<< >>, << "/", "l" >>}, {"h"}),
                      u \in UrlsOf("sl", {<< "/", "a", "/", "c" >>}, {"h", "g"})}

\* one call of merge_urls
Merge ==
    /\ ~merged.called
    /\ LET r == MergeUrls(merged.base_url, merged.url, merged.url_path)
       IN  merged' = [merged EXCEPT !.called = TRUE, !.err = r.err, !.new_url = r.url]
    /\ UNCHANGED <<storage, bufs, node, call, overlays, dir, last, yielded, rt,
                   forced, wins, builder, base, resolve, schemes>>

NextMerge == Merge

SpecMerge == InitMerge /\ [][NextMerge]_vars

Components == {"host", "username", "password", "port", "fragment"}

\* C17: for each of host, username, password, port and fragment, merge_urls
\* fails when the base url and the requested url both define it, equal values
\* included, and the url it otherwise returns carries the base url's value when
\* only the base url defines it and the requested url's when only the request
\* does.
ComponentMerge ==
    merged.called =>
        \A c \in Components :
            /\ (merged.base_url[c] # "" /\ merged.url[c] # "") => merged.err # ""
            /\ merged.err = "" =>
                  merged.new_url[c] = IF merged.base_url[c] # ""
                                      THEN merged.base_url[c] ELSE merged.url[c]

MergedFromBoth ==
    /\ merged.called /\ merged.err = ""
    /\ merged.base_url.host = "" /\ merged.new_url.host = "g"
    /\ merged.url.fragment = "" /\ merged.new_url.fragment = "f"
    /\ merged.new_url.username = "u"

\* ------------------------------------------------------------------- Vfs
\* the schemes added to the Vfs: the SymLinkScheme as "sl" and the
\* MemoryScheme of store 1 as "mem"
Registry == {"sl", "mem"}

\* the key a MemoryScheme stores a path under
Key(path) ==
    CASE path = << "/", "x" >> -> "/x"
      [] path = << "/", "y" >> -> "/y"
      [] OTHER -> ""

\* a conversion that hands the scheme's error on as it is
Unwrapped(cause) ==
    IF cause = "SchemeNotFound" THEN "NodeDoesNotExist" ELSE cause

\* `impl From<VfsError> for SchemeError`: the `?` of `Ok(fut.await?)` turns
\* every error of the delegated call into a GenericError("vfs error")
FromVfsError(cause) == "GenericError"

\* the error of the MemoryScheme's operation on url, or "": read_dir always
\* returns a stream, the others fail on a path that is not stored
LeafError(op, url) ==
    IF op = "read_dir" \/ (Key(url.path) \in Paths /\ storage[1][Key(url.path)] # NoBuf)
    THEN "" ELSE "NodeDoesNotExist"

\* MemoryScheme::read_dir: the root of the listing of a path
RootOf(path) ==
    IF path # << >> /\ path[Len(path)] = "/" THEN path
    ELSE IF IndexOf(path, "/") = 0 THEN << "/" >>
    ELSE SubSeq(path, 1, (CHOOSE i \in 1..Len(path) :
                             path[i] = "/" /\ \A j \in (i + 1)..Len(path) : path[j] # "/") - 1)

\* what the MemoryScheme's operation does to the store and the caller's node
LeafEffect(p, op, url) ==
    IF LeafError(op, url) # ""
    THEN MemOnly /\ StoresUnchanged
    ELSE CASE op = "get_node" -> GetNode(p, 1, Key(url.path), OptRead)
           [] op = "remove_node" -> RemoveNode(p, 1, Key(url.path), FALSE)
           [] op = "read_dir" ->
                /\ \E ord \in KeyOrders(1) :
                      dir' = << [layer |-> 1, iter |-> ord,
                                 root |-> IF RootOf(url.path) = << >> THEN ""
                                          ELSE IF RootOf(url.path) = << "/" >> THEN "/"
                                          ELSE "deeper"] >>
                /\ UNCHANGED <<overlays, yielded>>
                /\ StoresUnchanged
           [] OTHER -> MemOnly /\ StoresUnchanged

\* SymLinkScheme::link, called while the scheme is set up
Link(from, to) ==
    /\ resolve.op \in {"none", "link"}
    /\ LET r == LinkResult(base, from, to)
       IN  /\ base' = r.base
           /\ resolve' = [NoCall EXCEPT !.op = "link", !.state = "done", !.from = from,
                                        !.url = to, !.err = r.err, !.msg = r.msg]
    /\ UNCHANGED <<storage, bufs, node, call, overlays, dir, last, yielded, rt,
                   forced, wins, builder, merged, schemes>>

\* Vfs::get_node, remove_node, metadata, read_dir called on a url of the
\* SymLinkScheme: the call is forwarded to the scheme
VfsCall(op, url) ==
    /\ resolve.op \in {"none", "link"}
    /\ url.scheme \in Registry
    /\ resolve' = [NoCall EXCEPT !.op = op, !.state = "pending", !.url = url]
    /\ UNCHANGED <<storage, bufs, node, call, overlays, dir, last, yielded, rt,
                   forced, wins, builder, base, merged, schemes>>

\* SymLinkScheme::get_node, remove_node, metadata, read_dir: resolve the url,
\* then call the Vfs on the destination.  A destination of the SymLinkScheme
\* itself is one more call of this handler; the error of a call that went
\* through the Vfs comes back converted at every level.  A call whose
\* destination has grown beyond MaxPathLen goes on in the code and is not
\* followed here ("longer").
SymLinkOp(p) ==
    /\ resolve.state = "pending"
    /\ LET d == GetSymlinkDest(base, resolve.url)
           done(cause, err) ==
               resolve' = [resolve EXCEPT !.state = "done", !.dest = d.url,
                                          !.via = d.via, !.cause = cause,
                                          !.err = err, !.msg = d.msg]
       IN  IF d.err # ""
           THEN /\ done(IF resolve.nested THEN d.err ELSE "",
                        IF resolve.nested THEN FromVfsError(d.err) ELSE d.err)
                /\ MemOnly /\ StoresUnchanged
           ELSE IF d.url.scheme \notin Registry
           THEN /\ done("SchemeNotFound", FromVfsError("SchemeNotFound"))
                /\ MemOnly /\ StoresUnchanged
           ELSE IF d.url.scheme = "sl"
           THEN /\ resolve' = [resolve EXCEPT !.url = d.url, !.dest = d.url,
                                              !.via = d.via, !.nested = TRUE,
                                              !.state = IF Len(d.url.path) > MaxPathLen
                                                        THEN "longer" ELSE "pending"]
                /\ MemOnly /\ StoresUnchanged
           ELSE /\ done(LeafError(resolve.op, d.url),
                        IF LeafError(resolve.op, d.url) # ""
                        THEN FromVfsError(LeafError(resolve.op, d.url)) ELSE "")
                /\ LeafEffect(p, resolve.op, d.url)
    /\ UNCHANGED <<last, builder, base, merged, schemes>>

\* -------------------------------------------------------------- SpecLink

\* a url of a scheme and a path, without any other component
UrlOf(scheme, path) == [NoUrl EXCEPT !.scheme = scheme, !.path = path]

\* the absolute path of n segments "d"
Deep(n) == [i \in 1..(2 * n) |-> IF i % 2 = 1 THEN "/" ELSE "d"]

\* the `from` of the links: the root, "/a", "/a/b", paths of 15, 16 and 17
\* segments, and "a/b", "/", "/a/", "//h/a", "/a?q", "/a#f"
LinkFroms ==
    { << >>, << "/", "a" >>, << "/", "a", "/", "b" >>,
      Deep(MAX_SYMLINK_PATH_SEGMENTS - 1), Deep(MAX_SYMLINK_PATH_SEGMENTS),
      Deep(MAX_SYMLINK_PATH_SEGMENTS + 1),
      << "a", "/", "b" >>, << "/" >>, << "/", "a", "/" >>,
      << "/", "/", "h", "/", "a" >>, << "/", "a", "?", "q" >>,
      << "/", "a", "#", "f" >> }

\* the targets: mem:/, mem:/l, sl:/a/ (the scheme itself) and nope:/ (no such
\* scheme)
LinkTos ==
    { UrlOf("mem", << "/" >>), UrlOf("mem", << "/", "l" >>),
      UrlOf("sl", << "/", "a", "/" >>), UrlOf("nope", << "/" >>) }

\* the urls asked of the Vfs: sl:/a, sl:/a/x, sl:/a/b/x, sl:/q/x, sl:/d/d/x
\* and sl:x
Requests ==
    { UrlOf("sl", << "/", "a" >>), UrlOf("sl", << "/", "a", "/", "x" >>),
      UrlOf("sl", << "/", "a", "/", "b", "/", "x" >>),
      UrlOf("sl", << "/", "q", "/", "x" >>),
      UrlOf("sl", << "/", "d", "/", "d", "/", "x" >>),
      UrlOf("sl", << "x" >>) }

Ops == {"get_node", "remove_node", "metadata", "read_dir"}

\* the targets the trie holds
Linked == {nd \in DOMAIN base : base[nd] # NoUrl}

\* a MemoryScheme that holds "/x" or nothing, and a SymLinkScheme without links
InitLink ==
    /\ \E present \in BOOLEAN :
          /\ storage = [s \in Stores |-> [path \in Paths |->
                IF present /\ s = 1 /\ path = "/x" THEN 1 ELSE NoBuf]]
          /\ bufs = [d \in BufIds |-> IF present /\ d = 1 THEN Stored ELSE <<>>]
    /\ node = [p \in Procs |-> NoNode]
    /\ call = [p \in Procs |-> Idle]
    /\ overlays = <<>>
    /\ dir = <<>>
    /\ last = NoRes
    /\ yielded = <<>>
    /\ rt = [p \in Procs |-> RtOff]
    /\ forced = [p \in Procs |-> "no"]
    /\ wins = [s \in Stores |-> [path \in Paths |-> 0]]
    /\ NoSymLinks

NextLink ==
    \/ \E from \in LinkFroms, to \in LinkTos :
          Cardinality(Linked) < MaxLinks /\ Link(from, to)
    \/ \E op \in Ops, url \in Requests : VfsCall(op, url)
    \/ SymLinkOp(1)

SpecLink == InitLink /\ [][NextLink]_vars

\* the prefixes of segs that are trie nodes with a base_url, by length
Matches(segs) ==
    {k \in 0..Len(segs) :
        /\ k <= MAX_SYMLINK_PATH_SEGMENTS
        /\ SubSeq(segs, 1, k) \in DOMAIN base
        /\ base[SubSeq(segs, 1, k)] # NoUrl}

\* C13: get_symlink_dest resolves a url through the base_url of the longest
\* prefix of its path segments that is a trie node with a base_url, the root
\* being the empty prefix, whatever nodes without base_url the walk passes; it
\* fails with NodeDoesNotExist exactly when no prefix has one.
LongestPrefix ==
    [][ (~resolve.nested /\ SymLinkOp(1)) =>
          LET segs == PathSegments(resolve.url.path)
              m == Matches(segs)
          IN  IF m = {}
              THEN /\ resolve'.state = "done"
                   /\ resolve'.err = "NodeDoesNotExist" /\ resolve'.cause = ""
              ELSE /\ \E k \in m :
                         /\ \A j \in m : j <= k
                         /\ resolve'.via = SubSeq(segs, 1, k)
                         /\ resolve'.dest.scheme = base[SubSeq(segs, 1, k)].scheme
                   /\ ~(resolve'.err = "NodeDoesNotExist" /\ resolve'.cause = "")
      ]_vars

ThroughDeeperLink ==
    /\ resolve.op \in Ops /\ resolve.state = "done" /\ ~resolve.nested
    /\ resolve.via = << << "a" >>, << "b" >> >>
    /\ base[<< << "a" >> >>] # NoUrl
    /\ base[<< << "a" >> >>].scheme # resolve.dest.scheme

\* the path of a trie node: every segment after a '/'
RECURSIVE Joined(_)
Joined(nd) ==
    IF nd = << >> THEN << >> ELSE << "/" >> \o Head(nd) \o Joined(Tail(nd))

\* C14: the path of the destination is the path of the matched base url
\* followed by the rest of the requested path from the segment boundary on,
\* its leading '/' included (stated for base urls whose path does not end in
\* '/', as mem:/linked).
SuffixKeepsSlash ==
    ( /\ resolve.op \in Ops /\ resolve.state = "done" /\ ~resolve.nested
      /\ resolve.dest # NoUrl
      /\ base[resolve.via].path[Len(base[resolve.via].path)] # "/" ) =>
        resolve.dest.path =
            base[resolve.via].path \o Drop(resolve.url.path, Len(Joined(resolve.via)))

\* what C15 says of a `from`: it is relative, ends in '/', or carries a host, a
\* query or a fragment
Malformed(from) ==
    \/ from # << >> /\ from[1] # "/"
    \/ from # << >> /\ from[Len(from)] = "/"
    \/ Len(from) > 1 /\ from[1] = "/" /\ from[2] = "/"
    \/ \E i \in 1..Len(from) : from[i] \in {"?", "#"}

\* C38: a link that returns an error changes no resolution: get_symlink_dest
\* returns for every url what it returned before the call, every node the
\* trie had keeps its base_url and the nodes the call created have none.
FailedLinkInert ==
    [][ (resolve'.op = "link" /\ resolve'.err # "") =>
          \/ base' = base
          \/ /\ \A url \in Requests :
                   GetSymlinkDest(base', url) = GetSymlinkDest(base, url)
             /\ \A nd \in DOMAIN base' :
                   base'[nd] = IF nd \in DOMAIN base THEN base[nd] ELSE NoUrl
      ]_vars

HalfWalked ==
    /\ resolve.op = "link" /\ resolve.err # ""
    /\ resolve.from = Deep(MAX_SYMLINK_PATH_SEGMENTS)
    /\ \E nd \in DOMAIN base : Len(nd) = 2 /\ nd[1] = "d" /\ base[nd] = NoUrl
    /\ base[<< >>] # NoUrl

DepthLimit ==
    (resolve.op = "link" /\ \E n \in 1..(MAX_SYMLINK_PATH_SEGMENTS + 1) :
                                resolve.from = Deep(n)) =>
        (resolve.msg = "max symlink path segment depth exceeded, limit is 16"
            <=> resolve.from = Deep(MAX_SYMLINK_PATH_SEGMENTS + 1))

\* C18, amended: when the destination resolves and the operation the Vfs is
\* called with fails, each of get_node, remove_node, metadata and read_dir fails
\* with GenericError ("vfs error", the Vfs error as its source) and no other
\* kind.
DelegatedFailure ==
    (resolve.op \in Ops /\ resolve.state = "done" /\ resolve.cause # "") =>
        resolve.err = "GenericError"

\* C18 as stated: the failure is a NodeDoesNotExist
DelegatedFailureAbsent ==
    (resolve.op \in Ops /\ resolve.state = "done" /\ resolve.cause # "") =>
        resolve.err = "NodeDoesNotExist"

TargetAbsent ==
    /\ resolve.op = "get_node" /\ resolve.state = "done"
    /\ resolve.dest.scheme = "mem" /\ resolve.cause = "NodeDoesNotExist"
    /\ resolve.err # ""

\* C19: every call on a url of the SymLinkScheme returns, Ok or Err, after
\* finitely many hops.  The handler is a function of the url and of the link
\* table, which does not change while a call runs, so a call that returns
\* never hands the Vfs the url it was called with: no hop resolves a url of
\* the scheme to that same url.
Terminates ==
    (resolve.state = "pending" /\ resolve.nested) =>
        GetSymlinkDest(base, resolve.url).url # resolve.url

\* ------------------------------------------------------------------- Vfs
\* Vfs::add_scheme: a name that is taken is refused and the registry stays as
\* it is.  The scheme is moved into the Vfs, so it is under no other name.
AddSchemeReplacing(name, s) ==
    /\ AllIdle
    /\ \A other \in SchemeNames : schemes[other] # s
    /\ schemes' = [schemes EXCEPT ![name] = s]
    /\ last' = [Res("add_scheme", name, NoOpts, "", s) EXCEPT !.layer = schemes'[name]]
    /\ UNCHANGED <<overlays, dir, yielded, builder, base, resolve, merged>>
    /\ StoresUnchanged

AddScheme(name, s) ==
    /\ AllIdle
    /\ \A other \in SchemeNames : schemes[other] # s
    /\ schemes' = IF schemes[name] # NoBuf THEN schemes
                  ELSE [schemes EXCEPT ![name] = s]
    /\ last' = [Res("add_scheme", name, NoOpts,
                    IF schemes[name] # NoBuf THEN "SchemeAlreadyExists" ELSE "", s)
                   EXCEPT !.layer = schemes'[name]]
    /\ UNCHANGED <<overlays, dir, yielded, builder, base, resolve, merged>>
    /\ StoresUnchanged

\* a lookup that falls back on the first store
GetSchemeOrFirst(name) ==
    IF schemes[name] = NoBuf THEN 1 ELSE schemes[name]

\* Vfs::get_scheme: the scheme under the name, NoBuf for SchemeNotFound
GetScheme(name) == schemes[name]

\* Vfs::get_node: `self.get_scheme(url.scheme())?`, then the scheme's get_node
VfsGetNode(p, name, path, o) ==
    /\ AllIdle
    /\ LET s == GetScheme(name)
       IN  IF s = NoBuf
           THEN /\ last' = [Res("get_node", path, o, "SchemeNotFound", 0)
                               EXCEPT !.tried = << name >>]
                /\ MemOnly /\ StoresUnchanged
           ELSE /\ GetNode(p, s, path, o)
                /\ last' = IF call'[p].pc = "idle"
                           THEN [Res("get_node", path, o,
                                     LookupError(storage[s], path, o), 0)
                                    EXCEPT !.tried = << name >>, !.layer = s]
                           ELSE last
    /\ SymLinksUnchanged

\* ----------------------------------------------------------------- SpecVfs
\* schemes are added under the two names and one caller opens "/x" through
\* the Vfs, with and without create
NextVfs ==
    \/ \E name \in SchemeNames, s \in Stores : AddScheme(name, s)
    \/ \E name \in SchemeNames, o \in {OptRead, OptCreateReadWrite} :
          VfsGetNode(1, name, "/x", o)
    \/ GetNodeInsert(1) /\ Returns(1, "get_node") /\ SymLinksUnchanged

SpecVfs == Init /\ [][NextVfs]_vars

Dispatch ==
    [][ \A name \in SchemeNames, o \in {OptRead, OptCreateReadWrite} :
          VfsGetNode(1, name, "/x", o) =>
              IF schemes[name] = NoBuf
              THEN /\ last'.err = "SchemeNotFound"
                   /\ UNCHANGED <<storage, bufs, node, call>>
              ELSE /\ call'[1].pc = "idle" => last'.err # "SchemeNotFound"
                   /\ GetNode(1, schemes[name], "/x", o)
                   /\ \A s \in Stores : s # schemes[name] => storage'[s] = storage[s]
      ]_vars

DispatchedToSecond ==
    /\ last.op = "get_node" /\ last.err = "" /\ last.tried = << "tmp" >>
    /\ schemes["mem"] # NoBuf /\ schemes["tmp"] # NoBuf
    /\ storage[schemes["tmp"]]["/x"] # NoBuf
    /\ storage[schemes["mem"]]["/x"] = NoBuf

\* ---------------------------------------------------------------- SpecNode
\* a flush or close that any node may call
PollFlushAlways(nd) == TRUE

\* AsyncWrite::poll_flush and poll_close: Ok for a node opened with write
PollFlush(nd) == nd.write

\* poll_flush or poll_close through the caller's node
SeqFlush(p, op) ==
    /\ AllIdle
    /\ node[p].data # NoBuf
    /\ last' = Res(op, "", NoOpts,
                   IF PollFlush(node[p]) THEN "" ELSE "PermissionDenied", 0)
    /\ MemOnly /\ StoresUnchanged

\* the modes nodes are opened with: none, read, write, write+truncate,
\* read+write+create and read+write+append+create
NodeModes ==
    {NoOpts, OptRead, OptWrite, OptTruncate, OptCreateReadWrite, OptCreateAppend}

\* the positions sought: inside, at and beyond the end, and the ends of the
\* ranges of u64 and i64
NodeSeeks ==
    [kind : {"Start"}, n : {0, 1, 2^MaxBits - 1}]
    \cup [kind : {"End", "Current"},
          n : {0 - 2^(MaxBits - 1), -1, 0, 1, 2^(MaxBits - 1) - 1}]

\* two callers on the paths "/x" and "/y" of one MemoryScheme, one call at a
\* time: caller 1 opens, reads, writes, seeks, flushes, closes and drops,
\* caller 2 opens "/x" with truncate
NextNode ==
    /\ SymLinksUnchanged
    /\ \E p \in Procs :
        \/ \E path \in SeqPaths, o \in NodeModes :
              (p = 1 \/ (path = "/x" /\ o = OptTruncate)) /\ SeqGetNode(p, path, o)
        \/ GetNodeInsert(p) /\ Returns(p, "get_node")
        \/ GetNodeFinish(p) /\ Returns(p, "get_node")
        \/ \E n \in 0..MaxLen : p = 1 /\ SeqRead(p, n)
        \/ \E buf \in {<<0>>, <<1, 0>>} : p = 1 /\ SeqWrite(p, buf)
        \/ \E pos \in NodeSeeks : p = 1 /\ SeqSeek(p, pos)
        \/ \E op \in {"flush", "close"} : p = 1 /\ SeqFlush(p, op)
        \/ AllIdle /\ p = 1 /\ DropNode(p) /\ UNCHANGED last

SpecNode == Init /\ [][NextNode]_vars

\* C23: a node's is_reader and is_writer are the read and write of the options
\* it was opened with; a read through a node opened without read, a write, a
\* flush or a close through one opened without write, and a seek through one
\* opened with neither fail with a permission error and leave the node's
\* cursor and every buffer as they were.
CapabilitiesEnforced ==
    [][ /\ \A p \in Procs :
              ( /\ last'.op = "get_node" /\ last'.err = ""
                /\ node'[p] # node[p] /\ node'[p] # NoNode ) =>
                  /\ node'[p].read = last'.opts.read
                  /\ node'[p].write = last'.opts.write
        /\ \A n \in 0..MaxLen :
              (~node[1].read /\ SeqRead(1, n)) =>
                  last'.err = "PermissionDenied" /\ UNCHANGED <<node, bufs>>
        /\ \A buf \in {<<0>>, <<1, 0>>} :
              (~node[1].write /\ SeqWrite(1, buf)) =>
                  last'.err = "PermissionDenied" /\ UNCHANGED <<node, bufs>>
        /\ \A op \in {"flush", "close"} :
              (~node[1].write /\ SeqFlush(1, op)) =>
                  last'.err = "PermissionDenied" /\ UNCHANGED <<node, bufs>>
        /\ \A pos \in NodeSeeks :
              (~node[1].read /\ ~node[1].write /\ SeqSeek(1, pos)) =>
                  last'.err = "PermissionDenied" /\ UNCHANGED <<node, bufs>>
      ]_vars

DeniedClose ==
    /\ last.op = "close" /\ last.err = "PermissionDenied"
    /\ node[1].read /\ ~node[1].write /\ node[1].cursor > 0

\* C24: dropping a handle changes neither the map nor a stored buffer, and a
\* handle opened afterwards on the path with read only and no truncate has
\* the path's buffer with its content as it was and its cursor at 0: reading
\* it to the end returns exactly the bytes stored.
Persists ==
    [][ /\ DropNode(1) =>
              /\ storage' = storage
              /\ \A path \in SeqPaths :
                    storage[SeqStore][path] # NoBuf =>
                        bufs'[storage[SeqStore][path]] = bufs[storage[SeqStore][path]]
        /\ \A path \in SeqPaths :
              (storage[SeqStore][path] # NoBuf /\ SeqGetNode(1, path, OptRead)) =>
                  /\ last'.err = ""
                  /\ node'[1].data = storage[SeqStore][path]
                  /\ node'[1].cursor = 0
                  /\ PollRead(node'[1], bufs'[node'[1].data], MaxLen).bytes
                        = bufs[storage[SeqStore][path]]
      ]_vars

ReadAfterReopen ==
    /\ last.op = "read" /\ last.err = "" /\ last.n = 2
    /\ node[1].read /\ ~node[1].write /\ node[1].cursor = 2
    /\ node[2] = NoNode

\* C26: a write of the k bytes b through a writable handle with cursor c on a
\* buffer old of length L leaves, with p = min(c, L), the buffer
\* old[0..p] ++ b ++ old[p+k..L], of length max(L, p+k), returns k and leaves
\* the cursor at p+k; no other buffer changes.
WriteSplice ==
    [][ \A b \in {<<0>>, <<1, 0>>} :
          (node[1].write /\ SeqWrite(1, b)) =>
              LET d == node[1].data
                  old == bufs[d]
                  L == Len(old)
                  k == Len(b)
                  p == Min(node[1].cursor, L)
              IN  /\ bufs'[d] = SubSeq(old, 1, p) \o b \o SubSeq(old, p + k + 1, L)
                  /\ Len(bufs'[d]) = IF L > p + k THEN L ELSE p + k
                  /\ \A e \in BufIds : e # d => bufs'[e] = bufs[e]
                  /\ last'.err = "" /\ last'.n = k
                  /\ node'[1].cursor = p + k
      ]_vars

OverwrittenInPlace ==
    /\ last.op = "write" /\ last.err = "" /\ last.n = 1
    /\ node[1].cursor = 1 /\ bufs[node[1].data] = <<0, 0>>

\* C27: a read of r bytes through a readable handle with cursor c on a buffer
\* of length L copies the n = min(L - c, r) bytes buffer[c..c+n], returns n and
\* moves the cursor to c+n when c < L, returns 0 with the cursor where it was
\* when c >= L, and changes no buffer.
ReadCopies ==
    [][ \A r \in 0..MaxLen :
          (node[1].read /\ SeqRead(1, r)) =>
              LET data == bufs[node[1].data]
                  L == Len(data)
                  c == node[1].cursor
                  n == IF c < L THEN Min(L - c, r) ELSE 0
              IN  /\ last'.err = "" /\ last'.n = n
                  /\ PollRead(node[1], data, r).bytes = SubSeq(data, c + 1, c + n)
                  /\ node'[1].cursor = c + n
                  /\ bufs' = bufs
      ]_vars

ReadBeyondEnd ==
    /\ node[1].data # NoBuf
    /\ last.op = "read" /\ last.err = "" /\ last.n = 0
    /\ node[1].cursor > Len(bufs[node[1].data])

\* C28: a successful seek leaves the cursor c with 0 <= c <= L for the
\* buffer's length L, returns c and changes no buffer: Start(n) gives
\* min(n, L), End(n) gives L for n > 0 and max(0, L - |n|) for n <= 0,
\* Current(n) gives the old cursor plus n clamped into [0, L].
SeekClamps ==
    [][ \A pos \in NodeSeeks :
          ((node[1].read \/ node[1].write) /\ SeqSeek(1, pos) /\ last'.err = "") =>
              LET L == Len(bufs[node[1].data])
                  clamp(x) == IF x < 0 THEN 0 ELSE IF x > L THEN L ELSE x
                  c == CASE pos.kind = "Start" -> Min(pos.n, L)
                         [] pos.kind = "End" -> IF pos.n > 0 THEN L ELSE clamp(L + pos.n)
                         [] OTHER -> clamp(node[1].cursor + pos.n)
              IN  /\ node'[1].cursor = c /\ last'.n = c
                  /\ bufs' = bufs
      ]_vars

\* C35: every seek through a node that may seek returns, with the position
\* the exact sum clamps to: no offset of the i64 range makes the arithmetic
\* overflow, wrap around or panic, and the position lies in [0, L].
SeekNeverOverflows ==
    [][ \A pos \in NodeSeeks :
          ((node[1].read \/ node[1].write) /\ SeqSeek(1, pos)) =>
              LET L == Len(bufs[node[1].data])
                  exact == CASE pos.kind = "Start" -> pos.n
                             [] pos.kind = "End" -> L + pos.n
                             [] OTHER -> node[1].cursor + pos.n
              IN  /\ last'.err = ""
                  /\ node'[1] # NoNode
                  /\ last'.n = IF exact < 0 THEN 0 ELSE IF exact > L THEN L ELSE exact
                  /\ last'.n \in 0..L
      ]_vars

\* C29: get_node with truncate on a present path empties the path's buffer in
\* place: the map is unchanged, the new handle and the handles opened before
\* have that buffer, their cursors are unchanged, their next read finds no
\* byte, and no other buffer changes.
TruncateInPlace ==
    [][ \A p \in Procs, path \in SeqPaths :
          (storage[SeqStore][path] # NoBuf /\ SeqGetNode(p, path, OptTruncate)) =>
              LET d == storage[SeqStore][path]
              IN  /\ last'.err = ""
                  /\ storage' = storage
                  /\ bufs'[d] = <<>>
                  /\ \A e \in BufIds : e # d => bufs'[e] = bufs[e]
                  /\ node'[p].data = d
                  /\ \A q \in Procs :
                        (q # p /\ node[q].data = d) =>
                            /\ node'[q] = node[q]
                            /\ node[q].read =>
                                  PollRead(node'[q], bufs'[d], 1)
                                    = [ok |-> TRUE, bytes |-> <<>>, cursor |-> node[q].cursor]
      ]_vars

TruncatedUnderHandle ==
    /\ last.op = "get_node" /\ last.opts.truncate /\ last.err = ""
    /\ node[1].data # NoBuf /\ node[1].data = node[2].data
    /\ node[1].read /\ node[1].cursor > 0 /\ bufs[node[1].data] = <<>>
    /\ storage[SeqStore]["/y"] # NoBuf /\ bufs[storage[SeqStore]["/y"]] # <<>>

\* C30: the node get_node returns has its cursor at the length the buffer has
\* at the open, after the truncate of the same call, when the options have
\* append, and at 0 when they have not; the first write through a node opened
\* with append goes after the content and changes none of it.
AppendCursor ==
    [][ /\ \A p \in Procs :
              ( /\ last'.op = "get_node" /\ last'.err = ""
                /\ node'[p] # node[p] /\ node'[p] # NoNode ) =>
                  node'[p].cursor = IF last'.opts.append
                                    THEN Len(bufs'[node'[p].data]) ELSE 0
        /\ \A b \in {<<0>>, <<1, 0>>} :
              ( /\ last.op = "get_node" /\ last.err = ""
                /\ last.opts.append /\ last.opts.write
                /\ SeqWrite(1, b) ) =>
                  bufs'[node[1].data] = bufs[node[1].data] \o b
      ]_vars

OpenedAtEnd ==
    /\ node[1].data # NoBuf
    /\ last.op = "get_node" /\ last.opts.append /\ last.err = ""
    /\ node[1].cursor = Len(bufs[node[1].data]) /\ node[1].cursor > 0

\* ---------------------------------------------------------------- SpecScan
\* `path.starts_with(root_path)` on the characters of the two paths
StartsWithChars(path, root) ==
    Len(root) <= Len(path) /\ SubSeq(path, 1, Len(root)) = root

\* the keys a MemoryScheme may hold and the paths read_dir is called with
ScanKeys == { <<"/", "a", "/", "x">>, <<"/", "a", "b">>, <<"/", "b">> }
ScanUrls ==
    { <<"/">>, <<"/", "a", "/">>, <<"/", "a", "/", "x">>, <<"/", "c", "/">>, <<"/", "b">> }

\* a MemoryScheme in which some of the keys were created, each with
\* create_new and nothing written; nothing else was called yet
InitScan ==
    /\ \E present \in SUBSET ScanKeys :
          LET id == CHOOSE f \in [present -> 1..Cardinality(present)] :
                        \A a, b \in present : a # b => f[a] # f[b]
          IN  storage = [s \in Stores |-> [path \in ScanKeys |->
                            IF s = SeqStore /\ path \in present THEN id[path] ELSE NoBuf]]
    /\ bufs = [d \in BufIds |-> <<>>]
    /\ node = [p \in Procs |-> NoNode]
    /\ call = [p \in Procs |-> Idle]
    /\ overlays = <<>>
    /\ dir = <<>>
    /\ last = NoRes
    /\ yielded = <<>>
    /\ rt = [p \in Procs |-> RtOff]
    /\ forced = [p \in Procs |-> "no"]
    /\ wins = [s \in Stores |-> [path \in ScanKeys |-> 0]]
    /\ NoSymLinks

\* MemoryScheme::read_dir of a url with this path: always Ok, with a stream
\* over a clone of the map in the order its iterator has, and the root for
\* the url the stream keeps; Url::parse leaves these paths as they are
MemoryReadDir(s, path) ==
    /\ \E ord \in KeyOrders(s) :
          /\ dir' = << [layer |-> s, iter |-> ord, root |-> RootOf(path)] >>
          /\ last' = [Res("read_dir", path, NoOpts, "", 0) EXCEPT !.tried = ord]
    /\ yielded' = <<>>
    /\ UNCHANGED overlays
    /\ StoresUnchanged

\* a poll_next that looks the keys up in the map as it goes
MemoryReadDirNextLive ==
    /\ last.op \in {"read_dir", "poll_next"}
    /\ LET stream == dir[1]
           hits == {i \in 1..Len(stream.iter) :
                      /\ StartsWithChars(stream.iter[i], stream.root)
                      /\ storage[stream.layer][stream.iter[i]] # NoBuf}
           at == IF hits = {} THEN 0
                 ELSE CHOOSE i \in hits : \A j \in hits : i <= j
       IN  /\ dir' = << [stream EXCEPT !.iter =
                            IF at = 0 THEN <<>> ELSE SubSeq(@, at + 1, Len(@))] >>
           /\ yielded' = IF at = 0 THEN yielded
                         ELSE Append(yielded, [layer |-> stream.layer,
                                               path |-> stream.iter[at]])
           /\ last' = [Res("poll_next", last.path, NoOpts, "", 0)
                          EXCEPT !.layer = IF at = 0 THEN 0 ELSE stream.layer,
                                 !.tried = last.tried]
    /\ UNCHANGED overlays
    /\ StoresUnchanged

\* MemoryReadDir::poll_next: the next key of the clone that starts with the
\* root, or None (layer 0) when the iterator runs out
MemoryReadDirNext ==
    /\ last.op \in {"read_dir", "poll_next"}
    /\ LET stream == dir[1]
           hits == {i \in 1..Len(stream.iter) :
                      StartsWithChars(stream.iter[i], stream.root)}
           at == IF hits = {} THEN 0
                 ELSE CHOOSE i \in hits : \A j \in hits : i <= j
       IN  /\ dir' = << [stream EXCEPT !.iter =
                            IF at = 0 THEN <<>> ELSE SubSeq(@, at + 1, Len(@))] >>
           /\ yielded' = IF at = 0 THEN yielded
                         ELSE Append(yielded, [layer |-> stream.layer,
                                               path |-> stream.iter[at]])
           /\ last' = [Res("poll_next", last.path, NoOpts, "", 0)
                          EXCEPT !.layer = IF at = 0 THEN 0 ELSE stream.layer,
                                 !.tried = last.tried]
    /\ UNCHANGED overlays
    /\ StoresUnchanged

\* one thread calls read_dir once and polls the stream; while it does, another
\* creates and removes keys
NextScan ==
    /\ SymLinksUnchanged
    /\ \/ \E path \in ScanUrls : last = NoRes /\ MemoryReadDir(SeqStore, path)
       \/ MemoryReadDirNext
       \/ \E key \in ScanKeys :
             /\ last # NoRes
             /\ GetNode(2, SeqStore, key, OptCreateReadWrite)
             /\ UNCHANGED last
       \/ GetNodeInsert(2) /\ UNCHANGED last
       \/ \E key \in ScanKeys :
             /\ last # NoRes
             /\ RemoveNode(2, SeqStore, key, FALSE)
             /\ UNCHANGED last

SpecScan == InitScan /\ [][NextScan]_vars

\* the keys stored now, the keys stored when read_dir was called, and the
\* directory part of a path: the path up to its last '/'
ScanStored == {k \in ScanKeys : storage[SeqStore][k] # NoBuf}
ScanSnapshot == {last.tried[i] : i \in 1..Len(last.tried)}
DirectoryPart(path) ==
    SubSeq(path, 1, CHOOSE i \in 1..Len(path) :
                        path[i] = "/" /\ \A j \in (i + 1)..Len(path) : path[j] # "/")

\* the stream read_dir returned has ended
ScanDrained == last.op = "poll_next" /\ last.layer = 0

\* C25: read_dir never fails; once its stream has ended, for a path ending in
\* '/' it has yielded each key stored at the call that starts with the path
\* exactly once
\* and nothing else, and for a path not ending in '/' every key it yielded
\* lies under the directory part of the path.
FlatPrefixScan ==
    /\ last.op = "read_dir" => last.err = ""
    /\ ScanDrained =>
          LET path == last.path
              got == {yielded[i].path : i \in 1..Len(yielded)}
          IN  IF path[Len(path)] = "/"
              THEN /\ got = {k \in ScanSnapshot : StartsWithChars(k, path)}
                   /\ Len(yielded) = Cardinality(got)
              ELSE \A k \in got : StartsWithChars(k, DirectoryPart(path))

\* ---------------------------------------------------------------- SpecPair
\* two callers on the one path "/x" of a MemoryScheme; every call runs to its
\* return before the next.  Both create, read and write; the first also
\* truncates, removes and seeks.
NextPair ==
    /\ SymLinksUnchanged
    /\ \E p \in Procs :
        \/ \E o \in {OptCreateReadWrite, OptTruncate} :
              (p = 1 \/ o = OptCreateReadWrite) /\ SeqGetNode(p, "/x", o)
        \/ GetNodeInsert(p) /\ Returns(p, "get_node")
        \/ \E force \in BOOLEAN : p = 1 /\ SeqRemoveNode(p, "/x", force)
        \/ RemoveNodeClear(p) /\ Returns(p, "remove_node")
        \/ SeqRead(p, 1)
        \/ SeqWrite(p, <<0>>)
        \/ p = 1 /\ SeqSeek(p, [kind |-> "Start", n |-> 0])

SpecPair == Init /\ [][NextPair]_vars

\* C32: a read, write or seek through a caller's node and a get_node or
\* remove_node the caller runs leave the node of the other caller, its cursor
\* included, as it was, also when both nodes are on one buffer.
CursorsPrivate ==
    [][ \A p \in Procs :
          LET other == CHOOSE q \in Procs : q # p
              mine == \/ \E o \in {OptCreateReadWrite, OptTruncate} :
                            (p = 1 \/ o = OptCreateReadWrite) /\ SeqGetNode(p, "/x", o)
                      \/ GetNodeInsert(p) /\ Returns(p, "get_node")
                      \/ \E force \in BOOLEAN : p = 1 /\ SeqRemoveNode(p, "/x", force)
                      \/ RemoveNodeClear(p) /\ Returns(p, "remove_node")
                      \/ SeqRead(p, 1)
                      \/ SeqWrite(p, <<0>>)
                      \/ p = 1 /\ SeqSeek(p, [kind |-> "Start", n |-> 0])
          IN  (node'[other] # node[other]) => ~mine
      ]_vars

SameBufferOtherCursor ==
    /\ node[1].data # NoBuf /\ node[1].data = node[2].data
    /\ node[1].cursor = 2 /\ node[2].cursor = 0
    /\ last.op = "write"

\* C36: the node of a get_node that creates the path is on an empty buffer
\* that is the map's and that no node opened earlier is on, and a write
\* changes the buffer of its node only: after a removal and a new create,
\* what is written through the old node and what is written through the new
\* one, or found by the path, stay apart.
RecreatedFresh ==
    [][ \A p \in Procs :
          /\ (call[p].pc = "insert" /\ call'[p].pc = "idle") =>
                /\ node'[p].data = storage'[SeqStore]["/x"]
                /\ bufs'[node'[p].data] = <<>>
                /\ \A q \in Procs : q # p => node'[q].data # node'[p].data
          /\ (node[p].write /\ SeqWrite(p, <<0>>)) =>
                \A d \in BufIds : d # node[p].data => bufs'[d] = bufs[d]
      ]_vars

DetachedAfterRemove ==
    /\ node[1].data # NoBuf /\ node[2].data # NoBuf
    /\ node[1].data # node[2].data
    /\ storage[SeqStore]["/x"] = node[2].data
    /\ bufs[node[1].data] = <<0>> /\ bufs[node[2].data] = <<0, 0>>

\* C37: what the stream of a read_dir yields is fixed by the keys the map held
\* when read_dir was called: whatever is created or removed afterwards, the
\* keys yielded and the keys still to come are keys of that moment with the
\* root as prefix, each at most once; the stream has at most as many items as
\* the map had keys, and once it has ended it has yielded all of them.
ReadDirSnapshot ==
    last.op \in {"read_dir", "poll_next"} =>
        LET got == {yielded[i].path : i \in 1..Len(yielded)}
            rest == {dir[1].iter[i] : i \in 1..Len(dir[1].iter)}
            all == {k \in ScanSnapshot : StartsWithChars(k, dir[1].root)}
        IN  /\ got \subseteq all
            /\ Len(yielded) = Cardinality(got)
            /\ got \cap rest = {}
            /\ all \ got \subseteq rest
            /\ Len(yielded) + Len(dir[1].iter) <= Len(last.tried)
            /\ ScanDrained => got = all

YieldedAfterRemoval ==
    /\ ScanDrained
    /\ \E i \in 1..Len(yielded) : yielded[i].path \notin ScanStored
    /\ \E k \in ScanStored : StartsWithChars(k, dir[1].root) /\ k \notin ScanSnapshot

\* ---------------------------------------------------------------- SpecLock
\* the calls on one MemoryScheme and its nodes, lock by lock.  A call record
\* also holds the bytes of a poll_write (buf) and the guard on the buffer the
\* thread has: "none", "read" or "write".
LockCall(pc, path, o, d, buf, held) ==
    [pc |-> pc, store |-> SeqStore, path |-> path, opts |-> o, data |-> d,
     created |-> FALSE, buf |-> buf, held |-> held]

\* a thread outside every call
LockIdle == LockCall("idle", "", NoOpts, NoBuf, <<>>, "none")

\* an empty MemoryScheme and no call made
InitLock ==
    /\ storage = [s \in Stores |-> [path \in Paths |-> NoBuf]]
    /\ bufs = [d \in BufIds |-> <<>>]
    /\ node = [p \in Procs |-> NoNode]
    /\ call = [p \in Procs |-> LockIdle]
    /\ overlays = <<>>
    /\ dir = <<>>
    /\ last = NoRes
    /\ yielded = <<>>
    /\ rt = [p \in Procs |-> RtOff]
    /\ forced = [p \in Procs |-> "no"]
    /\ wins = [s \in Stores |-> [path \in Paths |-> 0]]
    /\ NoSymLinks

\* a guard held from the lookup to the insert
EntryGuardsThroughInsert == {q \in Procs : call[q].pc \in {"trunc", "meta", "insert"}}

\* the threads that hold the guard `self.storage.get(path)` returned: get_node
\* until the end of its present branch, metadata until it has the length
EntryGuards == {q \in Procs : call[q].pc \in {"trunc", "meta"}}

\* the threads inside `data.read()` and inside `data.write()` of buffer d
Readers(d) == {q \in Procs : call[q].held = "read" /\ call[q].data = d}
Writers(d) == {q \in Procs : call[q].held = "write" /\ call[q].data = d}

\* what a thread waits for: insert and remove need the map's shard unlocked
\* (every entry guard is taken to be on it), a write lock needs the buffer
\* free, a read lock needs it free of writers and, where the lock prefers
\* writers, of waiting writers
Blockers(p) ==
    LET d == call[p].data
    IN  CASE call[p].pc \in {"insert", "remove"} -> EntryGuards
          [] call[p].pc \in {"trunc", "clear", "write"} ->
                (Readers(d) \cup Writers(d)) \ {p}
          [] call[p].pc \in {"cursor", "meta", "read", "seek"} ->
                Writers(d) \cup {q \in Procs \ {p} :
                                   call[q].pc \in {"trunc", "clear", "write"}
                                   /\ call[q].data = d}
          [] OTHER -> {}

\* get_node up to the end of the branch the lookup selects: the present branch
\* keeps the entry's guard while it waits for the write lock of a truncation
LockedGetNode(p, path, o) ==
    /\ call[p].pc = "idle"
    /\ LET d == storage[SeqStore][path]
           out == Lookup(storage[SeqStore], path, o)
       IN  CASE out = "found" ->
                  /\ IF o.truncate \/ o.append
                     THEN /\ call' = [call EXCEPT ![p] =
                                LockCall(IF o.truncate THEN "trunc" ELSE "cursor",
                                         path, o, d, <<>>, "none")]
                          /\ node' = node
                     ELSE /\ node' = [node EXCEPT ![p] = NewNode(d, 0, o)]
                          /\ call' = call
             [] out = "insert" ->
                  /\ Cardinality(FreeIds)
                        > Cardinality({q \in Procs : call[q].pc = "insert"})
                  /\ call' = [call EXCEPT ![p] =
                                LockCall("insert", path, o, NoBuf, <<>>, "none")]
                  /\ node' = node
             [] OTHER -> UNCHANGED <<node, call>>
    /\ storage' = storage
    /\ bufs' = Collect(bufs, storage', node', call')

\* the rest of get_node, one lock at a time: the truncation under the write
\* lock, the insert under the shard's, the length under the read lock
LockedOpen(p) ==
    LET c == call[p]
        d == IF c.pc = "insert" THEN Alloc ELSE c.data
    IN  /\ c.pc \in {"trunc", "insert", "cursor"}
        /\ CASE c.pc = "trunc" -> Readers(d) \cup Writers(d) = {}
             [] c.pc = "insert" ->
                   \A q \in EntryGuards : call[q].path # c.path
             [] OTHER -> Writers(d) = {}
        /\ storage' = IF c.pc = "insert"
                      THEN [storage EXCEPT ![SeqStore] = Inserted(@, c.path, d)]
                      ELSE storage
        /\ IF c.pc # "cursor" /\ c.opts.append
           THEN /\ call' = [call EXCEPT ![p].pc = "cursor", ![p].data = d]
                /\ node' = node
           ELSE /\ call' = [call EXCEPT ![p] = LockIdle]
                /\ node' = [node EXCEPT ![p] =
                              NewNode(d, InitialCursor(bufs[d], c.opts), c.opts)]
        /\ bufs' = Collect(IF c.pc = "trunc" THEN TruncateOnOpen(bufs, d, c.opts)
                           ELSE bufs, storage', node', call')

\* remove_node is called
LockedRemoveNode(p, path, force) ==
    /\ call[p].pc = "idle"
    /\ call' = [call EXCEPT ![p] =
          LockCall("remove", path, [NoOpts EXCEPT !.truncate = force], NoBuf, <<>>, "none")]
    /\ UNCHANGED <<storage, bufs, node>>

\* `self.storage.remove(path)` under the shard's lock, then the clearing of a
\* forced removal under the write lock of the buffer taken out
LockedRemove(p) ==
    LET c == call[p]
        d == IF c.pc = "remove" THEN storage[SeqStore][c.path] ELSE c.data
    IN  /\ c.pc \in {"remove", "clear"}
        /\ IF c.pc = "remove"
           THEN \A q \in EntryGuards : call[q].path # c.path
           ELSE Readers(d) \cup Writers(d) = {}
        /\ storage' = IF c.pc = "remove"
                      THEN [storage EXCEPT ![SeqStore] = Removed(@, c.path)]
                      ELSE storage
        /\ call' = IF c.pc = "remove" /\ d # NoBuf /\ c.opts.truncate
                   THEN [call EXCEPT ![p].pc = "clear", ![p].data = d]
                   ELSE [call EXCEPT ![p] = LockIdle]
        /\ node' = node
        /\ bufs' = Collect(IF c.pc = "clear" THEN ClearOnRemove(bufs, d, TRUE)
                           ELSE bufs, storage', node', call')

\* metadata: the lookup, then the length under the read lock while the
\* entry's guard is held
LockedMetadata(p, path) ==
    /\ IF call[p].pc = "idle"
       THEN /\ storage[SeqStore][path] # NoBuf
            /\ call' = [call EXCEPT ![p] =
                  LockCall("meta", path, NoOpts, storage[SeqStore][path], <<>>, "none")]
       ELSE /\ call[p].pc = "meta" /\ call[p].path = path
            /\ Writers(call[p].data) = {}
            /\ call' = [call EXCEPT ![p] = LockIdle]
    /\ storage' = storage
    /\ node' = node
    /\ bufs' = Collect(bufs, storage', node', call')

\* the paths, the options and the bytes the threads call with
LockPaths == {"/x", "/y"}
OptCreateWrite == [NoOpts EXCEPT !.write = TRUE, !.create = TRUE]
LockModes == {OptCreateReadWrite, OptTruncate, OptAppend, OptCreateWrite}
LockWrites == {<<0>>, <<1, 1>>}
LongestWrite == CHOOSE n \in {Len(b) : b \in LockWrites} : \A b \in LockWrites : Len(b) <= n

\* poll_read, poll_write or poll_seek is called on the thread's node; a write
\* is one that cannot grow the buffer beyond the longest write
LockedNodeCall(p, pc, buf) ==
    /\ call[p].pc = "idle"
    /\ node[p].data # NoBuf
    /\ pc = "read" => node[p].read
    /\ pc = "write" => node[p].write /\ Min(node[p].cursor, LongestWrite) + Len(buf) <= LongestWrite
    /\ call' = [call EXCEPT ![p] = LockCall(pc, "", NoOpts, node[p].data, buf, "none")]
    /\ UNCHANGED <<storage, bufs, node>>

\* a poll_write that gives the lock up between the copy into the buffer and
\* the extension
LockedWriteReleasing(p) ==
    LET c == call[p]
        d == c.data
        w == PollWrite(node[p], bufs[d], c.buf)
        straddles == node[p].cursor < Len(bufs[d])
                        /\ node[p].cursor + Len(c.buf) >= Len(bufs[d])
    IN  /\ c.pc \in {"write", "writing", "extending"}
        /\ c.held = "none" => Readers(d) \cup Writers(d) = {}
        /\ CASE c.pc = "write" ->
                  /\ call' = [call EXCEPT ![p].pc = "writing", ![p].held = "write"]
                  /\ UNCHANGED <<bufs, node>>
             [] c.pc = "writing" /\ straddles ->
                  /\ bufs' = [bufs EXCEPT ![d] =
                        SubSeq(@, 1, node[p].cursor)
                           \o SubSeq(c.buf, 1, Len(@) - node[p].cursor)]
                  /\ call' = [call EXCEPT ![p].pc = "extending", ![p].held = "none"]
                  /\ node' = node
             [] OTHER ->
                  /\ bufs' = [bufs EXCEPT ![d] =
                        IF c.pc = "extending"
                        THEN @ \o SubSeq(c.buf, Len(@) - node[p].cursor + 1, Len(c.buf))
                        ELSE w.data]
                  /\ node' = [node EXCEPT ![p].cursor = Len(bufs'[d])]
                  /\ call' = [call EXCEPT ![p] = LockIdle]
        /\ storage' = storage

\* poll_write: the write lock, then one of the three branches; the last one
\* copies `inside` over the tail and then extends by `outside`, and the guard
\* is dropped after that
LockedWrite(p) ==
    LET c == call[p]
        d == c.data
        w == PollWrite(node[p], bufs[d], c.buf)
        straddles == node[p].cursor < Len(bufs[d])
                        /\ node[p].cursor + Len(c.buf) >= Len(bufs[d])
    IN  /\ c.pc \in {"write", "writing", "extending"}
        /\ c.held = "none" => Readers(d) \cup Writers(d) = {}
        /\ CASE c.pc = "write" ->
                  /\ call' = [call EXCEPT ![p].pc = "writing", ![p].held = "write"]
                  /\ UNCHANGED <<bufs, node>>
             [] c.pc = "writing" /\ straddles ->
                  /\ bufs' = [bufs EXCEPT ![d] =
                        SubSeq(@, 1, node[p].cursor)
                           \o SubSeq(c.buf, 1, Len(@) - node[p].cursor)]
                  /\ call' = [call EXCEPT ![p].pc = "extending"]
                  /\ node' = node
             [] OTHER ->
                  /\ bufs' = [bufs EXCEPT ![d] =
                        IF c.pc = "extending"
                        THEN @ \o SubSeq(c.buf, Len(@) - node[p].cursor + 1, Len(c.buf))
                        ELSE w.data]
                  /\ node' = [node EXCEPT ![p].cursor = Len(bufs'[d])]
                  /\ call' = [call EXCEPT ![p] = LockIdle]
        /\ storage' = storage

\* poll_read: the read lock, then the copy, after which the guard is dropped;
\* n is the length of the caller's buffer
LockedRead(p, n) ==
    LET c == call[p]
        r == PollRead(node[p], bufs[c.data], n)
    IN  /\ c.pc \in {"read", "reading"}
        /\ IF c.pc = "read"
           THEN /\ Writers(c.data) = {}
                /\ call' = [call EXCEPT ![p].pc = "reading", ![p].held = "read"]
                /\ node' = node
           ELSE /\ call' = [call EXCEPT ![p] = LockIdle]
                /\ node' = [node EXCEPT ![p].cursor = r.cursor]
        /\ UNCHANGED <<storage, bufs>>

\* poll_seek: the length under the read lock, and the new cursor
LockedSeek(p, pos) ==
    /\ call[p].pc = "seek"
    /\ Writers(call[p].data) = {}
    /\ node' = [node EXCEPT ![p].cursor = PollSeek(node[p], bufs[call[p].data], pos).cursor]
    /\ call' = [call EXCEPT ![p] = LockIdle]
    /\ UNCHANGED <<storage, bufs>>

\* the first thread creates "/x" and writes and seeks through its node; the
\* second truncates "/x" and opens it for appending, creates "/y", removes
\* both and asks for their metadata, and reads through its node

NextLock ==
    /\ SymLinksUnchanged
    /\ MemOnly
    /\ UNCHANGED <<last, rt, forced, wins>>
    /\ \E p \in Procs :
        \/ \E path \in LockPaths, o \in LockModes :
              /\ p = 1 => path = "/x" /\ o = OptCreateReadWrite
              /\ p = 2 => (path = "/y") = (o = OptCreateWrite)
              /\ LockedGetNode(p, path, o)
        \/ LockedOpen(p)
        \/ \E path \in LockPaths, force \in BOOLEAN :
              p = 2 /\ (path = "/y" => ~force) /\ LockedRemoveNode(p, path, force)
        \/ LockedRemove(p)
        \/ \E path \in LockPaths : p = 2 /\ LockedMetadata(p, path)
        \/ \E buf \in LockWrites : p = 1 /\ LockedNodeCall(p, "write", buf)
        \/ p = 2 /\ LockedNodeCall(p, "read", <<>>)
        \/ p = 1 /\ LockedNodeCall(p, "seek", <<>>)
        \/ LockedWrite(p)
        \/ LockedRead(p, MaxLen)
        \/ LockedSeek(p, [kind |-> "Start", n |-> 0])

SpecLock == InitLock /\ [][NextLock]_vars

\* C31: a thread inside a write of a buffer has it alone: while it is between
\* taking the write lock and dropping it, which for a write that crosses the
\* end of the buffer spans the copy over the tail and the extension, no other
\* thread is inside a read or a write of that buffer, so no read copies the
\* overwritten tail without the appended rest.
BufferExclusive ==
    \A p, q \in Procs :
        (p # q /\ call[p].pc \in {"writing", "extending"}
               /\ call[q].pc \in {"reading", "writing", "extending"}) =>
            call[p].data # call[q].data

ReaderWaitsForHalfWrite ==
    \E p, q \in Procs :
        /\ p # q
        /\ call[p].pc = "extending" /\ call[q].pc = "read"
        /\ call[p].data = call[q].data
        /\ bufs[call[p].data] = <<1>>

\* C34: no call waits for ever: every thread inside a call can take its next
\* step, or waits for threads that all can, or for threads that wait for such
\* threads; and a thread that holds a lock of a buffer waits for nothing, so
\* none of them needs the map guard a thread waiting for the buffer holds.
RECURSIVE Unblocks(_, _)
Unblocks(p, k) ==
    \/ Blockers(p) = {}
    \/ k > 0 /\ \A q \in Blockers(p) : Unblocks(q, k - 1)

NoDeadlock ==
    \A p \in Procs :
        /\ call[p].pc # "idle" => Unblocks(p, Cardinality(Procs))
        /\ (call[p].pc # "idle" /\ Blockers(p) = {}) =>
              ENABLED (LockedOpen(p) \/ LockedRemove(p) \/ LockedWrite(p)
                         \/ LockedRead(p, MaxLen) \/ LockedMetadata(p, call[p].path)
                         \/ LockedSeek(p, [kind |-> "Start", n |-> 0]))
        /\ call[p].held # "none" => Blockers(p) = {}

LockedStep(p) ==
    /\ SymLinksUnchanged
    /\ MemOnly
    /\ UNCHANGED <<last, rt, forced, wins>>
    /\ \/ LockedOpen(p)
       \/ LockedRemove(p)
       \/ call[p].pc = "meta" /\ LockedMetadata(p, call[p].path)
       \/ LockedWrite(p)
       \/ LockedRead(p, MaxLen)
       \/ LockedSeek(p, [kind |-> "Start", n |-> 0])

\* the calls on "/x": the first thread creates it and writes and seeks through
\* its node, the second truncates it, opens it for appending, removes it,
\* asks for its metadata and reads through its node
NextLockFair ==
    \E p \in Procs :
        \/ /\ SymLinksUnchanged
           /\ MemOnly
           /\ UNCHANGED <<last, rt, forced, wins>>
           /\ \/ p = 1 /\ LockedGetNode(p, "/x", OptCreateReadWrite)
              \/ \E o \in {OptTruncate, OptAppend} : p = 2 /\ LockedGetNode(p, "/x", o)
              \/ \E force \in BOOLEAN : p = 2 /\ LockedRemoveNode(p, "/x", force)
              \/ p = 2 /\ call[p].pc = "idle" /\ LockedMetadata(p, "/x")
              \/ \E buf \in LockWrites : p = 1 /\ LockedNodeCall(p, "write", buf)
              \/ p = 1 /\ LockedNodeCall(p, "seek", <<>>)
              \/ p = 2 /\ LockedNodeCall(p, "read", <<>>)
        \/ LockedStep(p)

\* a thread that can take its lock again and again gets it in the end
SpecLockFair ==
    InitLock /\ [][NextLockFair]_vars /\ \A p \in Procs : SF_vars(LockedStep(p))

====
